---- MODULE Spec2Model ----
(***************************************************************************)
(* Model of the Metronome audio scheduler (modules/audio/scheduler.js),    *)
(* the functional metronome API that drives it (modules/core/metronome.js  *)
(* of the 1.0.x line: startMetronome, stopMetronome, setBPM,               *)
(* setTimeSignature, scheduleBeat) and the published application state     *)
(* (modules/utils/state.js).                                               *)
(*                                                                         *)
(* All times are integers in milliseconds and are kept relative to the     *)
(* present: a stored audio timestamp t stands for                          *)
(* audioContext.currentTime + t and a stored wall-clock time for           *)
(* Date.now() + t, so both clocks read 0 in every state and the passing of *)
(* d ms lowers the stored times by d.  Audio timestamps are only lowered   *)
(* while the context is running, because a suspended or closed context's   *)
(* clock stands still.                                                     *)
(* JavaScript is single threaded: one invocation of schedulerLoop runs to  *)
(* completion before any other handler starts.  The loop is modelled with  *)
(* a program counter (pc) so that every beat dispatch is one step; while   *)
(* pc = "loop" no other handler is enabled and no time passes.             *)
(***************************************************************************)
EXTENDS Integers, FiniteSets, Sequences, TLC

VARIABLES
    scheduler,          \* the scheduler singleton object (its fields)
    state,              \* the published application state of state.js
    metronomeState,     \* metronomeState.isInitialized / sound buffers ready
    timers,             \* the host's pending setTimeout timers
    stateChangePending, \* a queued onstatechange event of the audio context
    pc,                 \* "idle" or "loop" (inside schedulerLoop's while loop)
    loopLocals,         \* schedulerLoop's locals: currentTime, interval, state, scheduleCount
    hist,               \* history: facts about the beats dispatched since the last start
    lastCall,           \* history: the direct API call made by the last step, if any
    metronomeInstance,  \* the Metronome object of metronome.js: initialized, isPlaying, currentBeat
    soundSystem,        \* soundBuffers.js: initialized, cleanupTimerId, ms until the interval fires
    activeAudioNodes,   \* soundBuffers.js: the ids in the activeAudioNodes map
    audioSources,       \* the audio sources created by playSoundInternal that still have a
                        \* callback to come: age in ms, per-node timeout pending, onended pending
    listeners,          \* state.js: the array of subscribed listeners
    listenerBehaviour,  \* what each subscribed listener does when it is called
    listenerCalls,      \* history: the listener calls made by the last updateState
    config,             \* config.js: the CONFIG object
    appInitializer,     \* init.js: the AppInitializer object
    initializationOrder, \* history: what the last _calculateInitializationOrder produced
    pendingStart,       \* metronome.js: where a Metronome.start() call is suspended at an await
    trainingSessionManager, \* trainingCore.js: the TrainingSessionManager object
    toggleLock,         \* metronome.js: the debounce lock of toggleMetronome
    trainingHist,       \* history: the beats the current training session has handled
    locks,              \* EventLockManager: the keys of the locks map
    lockTimers,         \* the pending expiry timers of tryLock
    lockHist,           \* history: per key, the ms left of the duration of the lock last obtained
    audioErrorBoundary, \* audioErrorBoundary.js: hasError, the autoRecovery option, whether an AppInitializer is at hand
    pendingRecovery,    \* the attemptRecovery() calls made by catchError that have not run on yet
    boundaryHist       \* history: the automatic recovery attempts since the last error reported from outside

vars == <<scheduler, state, metronomeState, timers,
          stateChangePending, pc, loopLocals, hist, lastCall, metronomeInstance,
          soundSystem, activeAudioNodes, audioSources,
          listeners, listenerBehaviour, listenerCalls, config,
          appInitializer, initializationOrder,
          pendingStart,
          trainingSessionManager, toggleLock, trainingHist,
          locks, lockTimers, lockHist,
          audioErrorBoundary, pendingRecovery, boundaryHist>>

(* the variables of the scheduler and of the functional metronome *)
coreVars == <<scheduler, state, metronomeState, timers,
              stateChangePending, pc, loopLocals, hist>>

(* the variables of the modules around the scheduler, which the scheduler's *)
(* and the functional metronome's handlers never touch                      *)
classVars == <<metronomeInstance>>

nodeVars == <<soundSystem, activeAudioNodes, audioSources>>

listenerVars == <<listeners, listenerBehaviour, listenerCalls>>

configVars == <<config>>

initVars == <<appInitializer, initializationOrder>>

asyncVars == <<pendingStart>>

trainingVars == <<trainingSessionManager, toggleLock, trainingHist>>

lockVars == <<locks, lockTimers, lockHist>>

boundaryVars == <<audioErrorBoundary, pendingRecovery, boundaryHist>>

auxVars == <<classVars, nodeVars, listenerVars, configVars, initVars, asyncVars, trainingVars, lockVars, boundaryVars>>

notClassVars == <<nodeVars, listenerVars, configVars, initVars, asyncVars, trainingVars, lockVars, boundaryVars>>

notNodeVars == <<coreVars, lastCall, classVars, listenerVars, configVars, initVars, asyncVars, trainingVars, lockVars, boundaryVars>>

notListenerVars == <<scheduler, metronomeState, timers, stateChangePending, pc,
                     loopLocals, hist, classVars, nodeVars, configVars, initVars, asyncVars, trainingVars, lockVars, boundaryVars>>

notConfigVars == <<coreVars, classVars, nodeVars, listenerVars, initVars, asyncVars, trainingVars, lockVars, boundaryVars>>

(* a suspended Metronome.start() acts on the scheduler and on the          *)
(* Metronome object                                                        *)
notAsyncVars == <<metronomeState, stateChangePending, nodeVars, listenerVars, configVars, initVars, trainingVars, lockVars, boundaryVars>>

(* the application initialiser acts on the scheduler and on the Metronome  *)
(* object                                                                  *)
notInitVars == <<metronomeState, stateChangePending, nodeVars, listenerVars, configVars, asyncVars, trainingVars, lockVars, boundaryVars>>

(* the audio error boundary acts on the application initialiser *)
notBoundaryVars == <<metronomeState, stateChangePending, nodeVars, listenerVars, configVars,
                     asyncVars, trainingVars, lockVars>>

(* the event lock manager stands alone *)
notLockVars == <<coreVars, classVars, nodeVars, listenerVars, configVars, initVars,
                 asyncVars, trainingVars, boundaryVars>>

(* a training session acts on the functional metronome *)
notTrainingVars == <<metronomeState, stateChangePending, classVars, nodeVars, listenerVars,
                     configVars, initVars, asyncVars, lockVars, boundaryVars>>

----------------------------------------------------------------------------
(* Bounds of the model *)

MaxLag == 400

TimeSteps == {50, 300}

BpmInputs == {120, 300, 1000}

(* the keys of the audio nodes alive at the same time *)
NodeIds == 1..2

(* lengths of the sounds in ms (getActualSoundDuration) *)
SoundDurations == {10, 50}

(* how much time passes in one step of the node registry's clock *)
NodeTimeSteps == {500, 2500}

(* the listener functions that subscribe to the state *)
ListenerIds == 1..3

(* the tempo values written by the state updates of the listener model *)
UpdateInputs == {100, 120}

NumeratorInputs == {2, 4}

DenominatorInputs == {4}

TimerIds == 1..3

(* Values fixed by the program *)

scheduleAheadTime == 200

minScheduleInterval == 1

maxScheduleInterval == 100

maxAllowedErrors == 3

maxSchedulesPerIteration == 20

StartupDelay == 200

RealignDelay == 150

SuspendedRetryDelay == 50

RecoveryDelay == 1000

MIN_BPM == 40

MAX_BPM == 300

(* soundBuffers.js *)
MAX_NODE_LIFETIME == 5000

SweepInterval == 1000

minBeatNumerator == 1

maxBeatNumerator == 16

ALLOWED_DENOMINATORS == {1, 2, 4, 8, 16}

defaultBPM == 120

defaultBeatNumerator == 4

defaultBeatDenominator == 4

Null == 0

(* the handle of a timer that has fired: clearing it clears nothing *)
Fired == -1

(* audioContext.currentTime and Date.now(), in the relative time frame *)
AudioNow == 0

WallNow == 0

(* lastUpdateTime before the first loop (the code's 0); past times are <= 0 *)
NeverUpdated == 1

Min(a, b) == IF a < b THEN a ELSE b

Max(a, b) == IF a > b THEN a ELSE b

(* playSoundInternal: the time at which a beat scheduled for `time` sounds *)
StartTime(time) == Max(time, AudioNow)

----------------------------------------------------------------------------
(* The "world" the handlers act on: w.s the scheduler object, w.st the     *)
(* published state, w.tm the timer queue, w.ret the return value of the    *)
(* call, w.g the history of the current run.                               *)

World == [s |-> scheduler, st |-> state, tm |-> timers, ret |-> "none", g |-> hist]

(* window.setTimeout: the handle is the smallest id that is neither pending *)
(* nor still held in one of the scheduler's handle fields.                  *)
FreeId(w, i) ==
    /\ \A t \in w.tm : t.id # i
    /\ i # w.s.timerID
    /\ i # w.s.recoveryTimeout

NewTimerId(w) == CHOOSE i \in TimerIds : FreeId(w, i) /\ \A j \in 1..(i - 1) : ~FreeId(w, j)

(* The host runs a due timer and forgets it; a handle field that still    *)
(* holds its id now names a timer that has fired.                          *)
FireTimer(w, t) ==
    [w EXCEPT !.tm = @ \ {t},
              !.s.timerID = IF @ = t.id THEN Fired ELSE @,
              !.s.recoveryTimeout = IF @ = t.id THEN Fired ELSE @]

(* window.clearTimeout *)
ClearTimeout(tm, id) == {t \in tm : t.id # id}

(* this.timerID = window.setTimeout(() => this.schedulerLoop(), delay) *)
ArmTick(w, delay) ==
    LET id == NewTimerId(w)
    IN [w EXCEPT !.tm = @ \cup {[id |-> id, kind |-> "tick", due |-> WallNow + delay]},
                 !.s.timerID = id]

(* scheduler.stop() without "this.schedulerCallback = null" *)
StopKeepsCallback(w) ==
    LET tm1 == IF w.s.timerID # Null THEN ClearTimeout(w.tm, w.s.timerID) ELSE w.tm
        tm2 == IF w.s.recoveryTimeout # Null THEN ClearTimeout(tm1, w.s.recoveryTimeout) ELSE tm1
    IN [w EXCEPT !.s.isRunning = FALSE,
                 !.s.timerID = Null,
                 !.s.recoveryTimeout = Null,
                 !.s.currentBeat = 1,
                 !.s.errorCount = 0,
                 !.tm = tm2,
                 !.ret = "undefined",
                 !.g.dispatched = FALSE,
                 !.g.lastTime = 0,
                 !.g.afterSuspension = FALSE,
                 !.g.stopCause = "stop",
                 !.g.firstDue = 0,
                 !.g.lateStart = FALSE,
                 !.g.soundFailures = 0,
                 !.g.beatEvents = <<>>,
                 !.g.lastBeat = 0,
                 !.g.realigned = FALSE,
                 !.g.sigChanged = FALSE]

(* scheduler.stop() *)
Stop(w) ==
    LET tm1 == IF w.s.timerID # Null THEN ClearTimeout(w.tm, w.s.timerID) ELSE w.tm
        tm2 == IF w.s.recoveryTimeout # Null THEN ClearTimeout(tm1, w.s.recoveryTimeout) ELSE tm1
    IN [w EXCEPT !.s.isRunning = FALSE,
                 !.s.timerID = Null,
                 !.s.recoveryTimeout = Null,
                 !.s.schedulerCallback = "null",
                 !.s.currentBeat = 1,
                 !.s.errorCount = 0,
                 !.tm = tm2,
                 !.ret = "undefined",
                 !.g.dispatched = FALSE,
                 !.g.lastTime = 0,
                 !.g.afterSuspension = FALSE,
                 !.g.stopCause = "stop",
                 !.g.firstDue = 0,
                 !.g.lateStart = FALSE,
                 !.g.soundFailures = 0,
                 !.g.beatEvents = <<>>,
                 !.g.lastBeat = 0,
                 !.g.realigned = FALSE,
                 !.g.sigChanged = FALSE]

(* scheduler.updateInterval() that also restarts the bar                   *)
(* (this.currentBeat = 1)                                                  *)
UpdateIntervalResetsBeat(w) ==
    IF w.s.audioContext = "null"
    THEN [w EXCEPT !.ret = "false"]
    ELSE [w EXCEPT !.s.nextBeatTime = AudioNow + RealignDelay, !.s.currentBeat = 1,
                   !.ret = "true", !.g.realigned = TRUE]

(* scheduler.updateInterval() *)
UpdateInterval(w) ==
    IF w.s.audioContext = "null"
    THEN [w EXCEPT !.ret = "false"]
    ELSE [w EXCEPT !.s.nextBeatTime = AudioNow + RealignDelay, !.ret = "true",
                   !.g.realigned = TRUE]

(* scheduler.attemptRecovery() with a recovery timer that is due at once   *)
AttemptRecoveryWithoutCooldown(w) ==
    IF w.s.recoveryTimeout # Null
    THEN w
    ELSE LET id == NewTimerId(w)
         IN [w EXCEPT !.tm = @ \cup {[id |-> id, kind |-> "recovery", due |-> WallNow]},
                      !.s.recoveryTimeout = id]

(* scheduler.attemptRecovery() *)
AttemptRecovery(w) ==
    IF w.s.recoveryTimeout # Null
    THEN w
    ELSE LET id == NewTimerId(w)
         IN [w EXCEPT !.tm = @ \cup {[id |-> id, kind |-> "recovery", due |-> WallNow + RecoveryDelay]},
                      !.s.recoveryTimeout = id]

(* scheduler.reset() *)
Reset(w) ==
    LET w1 == Stop(w)
    IN [w1 EXCEPT !.s.audioContext = "null", !.s.nextBeatTime = 0, !.s.lastUpdateTime = NeverUpdated]

(* scheduler.init(); created is the state of the new context after the     *)
(* awaited resume ("running" or "suspended"), or "fail" when the           *)
(* constructor throws.                                                     *)
SchedulerInit(w, created) ==
    IF w.s.audioContext # "null"
    THEN [w EXCEPT !.ret = "undefined"]
    ELSE IF created = "fail"
         THEN [w EXCEPT !.ret = "throw"]
         ELSE [w EXCEPT !.s.audioContext = created, !.ret = "undefined"]

(* schedulerLoop() entry without the branch for a suspended context *)
LoopEntryIgnoresSuspended(w) ==
    IF ~w.s.isRunning
    THEN [w |-> w, enter |-> FALSE]
    ELSE IF w.s.lastUpdateTime # NeverUpdated /\ WallNow - w.s.lastUpdateTime < minScheduleInterval
         THEN [w |-> ArmTick(w, minScheduleInterval), enter |-> FALSE]
         ELSE LET w1 == [w EXCEPT !.s.lastUpdateTime = WallNow]
              IN IF w1.s.audioContext \in {"null", "closed"}
                 THEN [w |-> [Stop(w1) EXCEPT !.g.stopCause = "closed"], enter |-> FALSE]
                 ELSE [w |-> w1, enter |-> TRUE]

(* schedulerLoop() entry without the check for a closed or missing context *)
LoopEntryIgnoresClosed(w) ==
    IF ~w.s.isRunning
    THEN [w |-> w, enter |-> FALSE]
    ELSE IF w.s.lastUpdateTime # NeverUpdated /\ WallNow - w.s.lastUpdateTime < minScheduleInterval
         THEN [w |-> ArmTick(w, minScheduleInterval), enter |-> FALSE]
         ELSE LET w1 == [w EXCEPT !.s.lastUpdateTime = WallNow]
              IN IF w1.s.audioContext = "suspended"
                 THEN [w |-> [ArmTick(w1, SuspendedRetryDelay) EXCEPT !.g.afterSuspension = TRUE],
                       enter |-> FALSE]
                 ELSE [w |-> w1, enter |-> TRUE]

(* The entry of schedulerLoop() up to the while loop.  enter tells whether *)
(* the while loop is reached.                                              *)
LoopEntry(w) ==
    IF ~w.s.isRunning
    THEN [w |-> w, enter |-> FALSE]
    ELSE IF w.s.lastUpdateTime # NeverUpdated /\ WallNow - w.s.lastUpdateTime < minScheduleInterval
         THEN [w |-> ArmTick(w, minScheduleInterval), enter |-> FALSE]
         ELSE LET w1 == [w EXCEPT !.s.lastUpdateTime = WallNow]
              IN IF w1.s.audioContext \in {"null", "closed"}
                 THEN [w |-> [Stop(w1) EXCEPT !.g.stopCause = "closed"], enter |-> FALSE]
                 ELSE IF w1.s.audioContext = "suspended"
                      THEN [w |-> [ArmTick(w1, SuspendedRetryDelay) EXCEPT !.g.afterSuspension = TRUE],
                            enter |-> FALSE]
                      ELSE [w |-> w1, enter |-> TRUE]

(* scheduler.start(callback) without the "already running" early return *)
SchedulerStartRestarts(w, callback) ==
    IF w.s.audioContext = "null"
    THEN [w |-> [w EXCEPT !.ret = "false"], enter |-> FALSE]
    ELSE LET w1 == [w EXCEPT !.s.schedulerCallback = callback,
                             !.s.isRunning = TRUE,
                             !.s.currentBeat = 1,
                             !.s.errorCount = 0,
                             !.s.nextBeatTime = AudioNow + StartupDelay,
                             !.s.lastUpdateTime = WallNow,
                             !.g.dispatched = FALSE,
                             !.g.lastTime = 0,
                             !.g.afterSuspension = FALSE,
                             !.g.stopCause = "none",
                             !.g.firstDue = AudioNow + StartupDelay,
                             !.g.lateStart = FALSE,
                             !.g.soundFailures = 0,
                             !.g.beatEvents = <<>>,
                             !.g.lastBeat = 0,
                             !.g.realigned = FALSE,
                             !.g.sigChanged = FALSE,
                             !.g.failStreak = 0]
             r == LoopEntry(w1)
         IN [w |-> [r.w EXCEPT !.ret = "true"], enter |-> r.enter]

(* scheduler.start(callback) without the startup delay of the first beat *)
SchedulerStartWithoutDelay(w, callback) ==
    IF w.s.audioContext = "null"
    THEN [w |-> [w EXCEPT !.ret = "false"], enter |-> FALSE]
    ELSE IF w.s.isRunning
         THEN [w |-> [w EXCEPT !.ret = "true"], enter |-> FALSE]
         ELSE LET w1 == [w EXCEPT !.s.schedulerCallback = callback,
                                  !.s.isRunning = TRUE,
                                  !.s.currentBeat = 1,
                                  !.s.errorCount = 0,
                                  !.s.nextBeatTime = AudioNow,
                                  !.s.lastUpdateTime = WallNow,
                                  !.g.dispatched = FALSE,
                                  !.g.lastTime = 0,
                                  !.g.afterSuspension = FALSE,
                                  !.g.stopCause = "none",
                                  !.g.firstDue = AudioNow + StartupDelay,
                                  !.g.lateStart = FALSE,
                                  !.g.soundFailures = 0,
                                  !.g.beatEvents = <<>>,
                                  !.g.lastBeat = 0,
                                  !.g.realigned = FALSE,
                                  !.g.sigChanged = FALSE,
                                  !.g.failStreak = 0]
                  r == LoopEntry(w1)
              IN [w |-> [r.w EXCEPT !.ret = "true"], enter |-> r.enter]

(* scheduler.start(callback) *)
SchedulerStart(w, callback) ==
    IF w.s.audioContext = "null"
    THEN [w |-> [w EXCEPT !.ret = "false"], enter |-> FALSE]
    ELSE IF w.s.isRunning
         THEN [w |-> [w EXCEPT !.ret = "true"], enter |-> FALSE]
         ELSE LET w1 == [w EXCEPT !.s.schedulerCallback = callback,
                                  !.s.isRunning = TRUE,
                                  !.s.currentBeat = 1,
                                  !.s.errorCount = 0,
                                  !.s.nextBeatTime = AudioNow + StartupDelay,
                                  !.s.lastUpdateTime = WallNow,
                                  !.g.dispatched = FALSE,
                                  !.g.lastTime = 0,
                                  !.g.afterSuspension = FALSE,
                                  !.g.stopCause = "none",
                                  !.g.firstDue = AudioNow + StartupDelay,
                                  !.g.lateStart = FALSE,
                                  !.g.soundFailures = 0,
                                  !.g.beatEvents = <<>>,
                                  !.g.lastBeat = 0,
                                  !.g.realigned = FALSE,
                                  !.g.sigChanged = FALSE,
                                  !.g.failStreak = 0]
                  r == LoopEntry(w1)
              IN [w |-> [r.w EXCEPT !.ret = "true"], enter |-> r.enter]

----------------------------------------------------------------------------
(* JavaScript numbers: NaN stands for the not-a-number value; a comparison *)
(* with NaN is false, and so is "Math.abs(a - b) < 0.1" when a or b is NaN. *)
NaN == -1000000

JsLess(a, b) == a # NaN /\ b # NaN /\ a < b

JsGreater(a, b) == a # NaN /\ b # NaN /\ a > b

JsClose(a, b) == a # NaN /\ b # NaN /\ a = b

(* the tempos handed to the setters in the tempo specification *)
TempoInputs == {NaN, 0, 39, 40, 41, 120, 299, 300, 301, 1000}

(* clamp(value, min, max) of metronome.js:                                 *)
(* Math.min(Math.max(Number(value) || 0, min), max)                        *)
Clamp(value, min, max) == Min(Max(IF value = NaN THEN 0 ELSE value, min), max)

(* The functional metronome API *)

(* updateState(patch) of state.js, for the fields the scheduler reads      *)
UpdateState(w, patch) ==
    [w EXCEPT !.st = [k \in DOMAIN w.st |-> IF k \in DOMAIN patch THEN patch[k] ELSE w.st[k]]]

(* isAudioReady() of soundBuffers.js *)
IsAudioReady(w) ==
    /\ metronomeState.soundBuffersReady
    /\ w.s.audioContext \notin {"null", "closed"}

(* stopMetronome() *)
StopMetronome(w) ==
    IF ~w.st.isRunning
    THEN [w EXCEPT !.ret = "false"]
    ELSE LET w1 == Stop(w)
             w2 == UpdateState(w1, [isRunning |-> FALSE, currentBeat |-> 0, currentBar |-> 0])
         IN [w2 EXCEPT !.ret = "true"]

(* setBPM(newBPM) without the call of scheduler.updateInterval() *)
SetBPMWithoutRealign(w, newBPM) ==
    IF JsLess(newBPM, MIN_BPM) \/ JsGreater(newBPM, MAX_BPM)
    THEN [w EXCEPT !.ret = "false"]
    ELSE IF JsClose(w.st.bpm, newBPM)
         THEN [w EXCEPT !.ret = "true"]
         ELSE [UpdateState(w, [bpm |-> newBPM]) EXCEPT !.ret = "true"]

(* setBPM(newBPM) *)
SetBPM(w, newBPM) ==
    IF JsLess(newBPM, MIN_BPM) \/ JsGreater(newBPM, MAX_BPM)
    THEN [w EXCEPT !.ret = "false"]
    ELSE IF JsClose(w.st.bpm, newBPM)
         THEN [w EXCEPT !.ret = "true"]
         ELSE LET w1 == UpdateState(w, [bpm |-> newBPM])
                  w2 == IF w.st.isRunning THEN UpdateInterval(w1) ELSE w1
              IN [w2 EXCEPT !.ret = "true"]

(* Metronome.setBPM(bpm) of the Metronome class: clamps and publishes *)
MetronomeSetBPM(w, bpm) ==
    [UpdateState(w, [bpm |-> Clamp(bpm, MIN_BPM, MAX_BPM)]) EXCEPT !.ret = "undefined"]

(* setTimeSignature(numerator, denominator) *)
SetTimeSignature(w, numerator, denominator) ==
    IF numerator < minBeatNumerator \/ numerator > maxBeatNumerator
    THEN [w EXCEPT !.ret = "false"]
    ELSE IF denominator \notin ALLOWED_DENOMINATORS
         THEN [w EXCEPT !.ret = "false"]
         ELSE IF w.st.beatNumerator = numerator /\ w.st.beatDenominator = denominator
              THEN [w EXCEPT !.ret = "true"]
              ELSE LET w1 == UpdateState(w, [beatNumerator |-> numerator,
                                             beatDenominator |-> denominator,
                                             currentBeat |-> 0,
                                             currentBar |-> 0])
                       w2 == IF w.st.isRunning THEN UpdateInterval(w1) ELSE w1
                   IN [w2 EXCEPT !.ret = "true",
                                 !.g.sigChanged = w.s.isRunning]

(* startMetronome() *)
StartMetronome(w) ==
    IF ~metronomeState.isInitialized \/ ~IsAudioReady(w)
    THEN [w |-> [UpdateState(w, [isRunning |-> FALSE]) EXCEPT !.ret = "false"], enter |-> FALSE]
    ELSE IF w.st.isRunning
         THEN [w |-> [w EXCEPT !.ret = "false"], enter |-> FALSE]
         ELSE LET w1 == UpdateState(w, [isRunning |-> TRUE])
                  r == SchedulerStart(w1, "scheduleBeat")
              IN IF r.w.ret = "true"
                 THEN r
                 ELSE [w |-> [UpdateState(r.w, [isRunning |-> FALSE]) EXCEPT !.ret = "false"],
                       enter |-> FALSE]

(* What the listeners of the metronome:beat event may do from inside the   *)
(* beat callback (training mode reconfigures or stops the metronome).      *)
ListenerEffects ==
    {[kind |-> "none", a |-> 0, b |-> 0], [kind |-> "stopMetronome", a |-> 0, b |-> 0],
     [kind |-> "playSoundFails", a |-> 0, b |-> 0]}
    \cup {[kind |-> "setBPM", a |-> x, b |-> 0] : x \in BpmInputs}
    \cup {[kind |-> "setTimeSignature", a |-> n, b |-> d] : n \in NumeratorInputs, d \in DenominatorInputs}

(* What a callback handed directly to scheduler.start may do. *)
RawEffects ==
    {[kind |-> "return", a |-> 0, b |-> 0], [kind |-> "throw", a |-> 0, b |-> 0],
     [kind |-> "stop", a |-> 0, b |-> 0]}

(* What a callback may do that uses the scheduler itself: return, call     *)
(* scheduler.stop(), call scheduler.start(callback), or stop and start     *)
(* again.  start is only tried while at most one timer is pending, which   *)
(* keeps the number of timers within TimerIds.                             *)
ReentrantEffects ==
    {[kind |-> "return", a |-> 0, b |-> 0], [kind |-> "stop", a |-> 0, b |-> 0]}
        \cup IF Cardinality(timers) <= 1
             THEN {[kind |-> "start", a |-> 0, b |-> 0], [kind |-> "restart", a |-> 0, b |-> 0]}
             ELSE {}

(* scheduleBeat(beatTime, beatNumber), the callback startMetronome gives   *)
(* to the scheduler; it catches every error itself.  With the effect       *)
(* "playSoundFails" playSound returns false: scheduleBeat logs a warning   *)
(* and goes on.  hist.soundFailures counts the beats in a row on which     *)
(* the sound was not emitted.  The state is updated, then the              *)
(* metronome:beat event is dispatched (hist.beatEvents holds the events of *)
(* the latest call); its listeners run inside dispatchEvent and may use    *)
(* the metronome API.                                                      *)
ScheduleBeat(w, beatTime, beatNumber, effect) ==
    LET newBar == (beatNumber - 1) \div w.st.beatNumerator
        playSuccess == effect.kind # "playSoundFails"
        event == [beat |-> beatNumber, isFirstBeat |-> (beatNumber = 1)]
        w0 == [w EXCEPT !.g.soundFailures = IF playSuccess THEN 0
                                            ELSE Min(@ + 1, maxAllowedErrors),
                        !.g.lateStart = playSuccess /\ StartTime(beatTime) < AudioNow]
        w1 == UpdateState(w0, [currentBeat |-> beatNumber, currentBar |-> newBar])
        w2 == [w1 EXCEPT !.g.beatEvents = Append(@, event)]
    IN CASE effect.kind = "stopMetronome" -> StopMetronome(w2)
         [] effect.kind = "setBPM" -> SetBPM(w2, effect.a)
         [] effect.kind = "setTimeSignature" -> SetTimeSignature(w2, effect.a, effect.b)
         [] effect.kind = "configure" -> SetTimeSignature(SetBPM(w2, effect.a), effect.b, 4)
         [] OTHER -> w2

(* What happens inside Metronome._playBeat: the audio nodes are built and  *)
(* started, or one of the audio calls throws.                              *)
PlayBeatEffects ==
    {[kind |-> "none", a |-> 0, b |-> 0], [kind |-> "playBeatFails", a |-> 0, b |-> 0]}

(* Metronome._playBeat({ time, isAccent, volume }), called by the callback *)
(* Metronome.start gives to the scheduler.  The oscillator is started at   *)
(* `time` as it is (hist.lateStart: that time has passed); then the state  *)
(* is updated with this.currentBeat + 1, which is what the subscribers of  *)
(* the state see of the beat (hist.beatEvents).  An error thrown on the    *)
(* way is caught and logged, and the rest of the body is skipped.          *)
PlayBeat(w, time, isAccent, effect) ==
    IF effect.kind = "playBeatFails"
    THEN [w EXCEPT !.g.soundFailures = Min(@ + 1, maxAllowedErrors)]
    ELSE LET beat == metronomeInstance.currentBeat + 1
             w1 == UpdateState(w, [currentBeat |-> beat, currentBar |-> 0])
         IN [w1 EXCEPT !.g.soundFailures = 0,
                       !.g.lateStart = time < AudioNow,
                       !.g.beatEvents = Append(@, [beat |-> beat, isFirstBeat |-> (beat = 1)])]

(* this.schedulerCallback(this.nextBeatTime, this.currentBeat) *)
InvokeCallback(w, effect) ==
    CASE w.s.schedulerCallback = "scheduleBeat" ->
             ScheduleBeat(w, w.s.nextBeatTime, w.s.currentBeat, effect)
      [] w.s.schedulerCallback = "playBeat" ->
             PlayBeat(w, w.s.nextBeatTime, w.s.currentBeat = 1, effect)
      [] w.s.schedulerCallback = "raw" /\ effect.kind = "stop" -> Stop(w)
      [] w.s.schedulerCallback = "reentrant" /\ effect.kind = "stop" -> Stop(w)
      [] w.s.schedulerCallback = "reentrant" /\ effect.kind = "start" ->
             SchedulerStart(w, "reentrant").w
      [] w.s.schedulerCallback = "reentrant" /\ effect.kind = "restart" ->
             SchedulerStart(Stop(w), "reentrant").w
      [] OTHER -> w

EffectsOf(callback) ==
    CASE callback = "scheduleBeat" -> ListenerEffects
      [] callback = "raw" -> RawEffects
      [] callback = "playBeat" -> PlayBeatEffects
      [] callback = "reentrant" -> ReentrantEffects
      [] OTHER -> {[kind |-> "none", a |-> 0, b |-> 0]}

(* The loop body with an errorCount that a successful dispatch leaves as   *)
(* it is, so that it counts all failures since start().                    *)
LoopBodyKeepsErrorCount(w, effect, interval, beatNumerator) ==
    LET invoked == w.s.schedulerCallback # "null"
        w0 == IF invoked
              THEN [w EXCEPT !.g.dispatched = TRUE,
                             !.g.lastTime = w.s.nextBeatTime,
                             !.g.lastBeat = w.s.currentBeat,
                             !.g.firstDue = 0,
                             !.g.lateStart = FALSE,
                             !.g.beatEvents = <<>>,
                             !.g.realigned = FALSE,
                             !.g.sigChanged = FALSE]
              ELSE w
        w1 == InvokeCallback(w0, effect)
        threw == invoked /\ effect.kind = "throw"
    IN IF ~threw
       THEN [w |-> [w1 EXCEPT !.s.nextBeatTime = @ + interval,
                              !.s.currentBeat = (@ % beatNumerator) + 1,
                              !.g.failStreak = IF invoked THEN 0 ELSE @,
                              !.g.callbackReturned = @ \/ invoked],
             done |-> FALSE]
       ELSE LET w2 == [w1 EXCEPT !.s.errorCount = @ + 1, !.g.failStreak = @ + 1]
            IN IF w2.s.errorCount >= maxAllowedErrors
               THEN [w |-> AttemptRecovery([Stop(w2) EXCEPT !.g.stopCause = "errors"]),
                     done |-> TRUE]
               ELSE [w |-> [w2 EXCEPT !.s.nextBeatTime = @ + interval,
                                      !.s.currentBeat = (@ % beatNumerator) + 1],
                     done |-> FALSE]

(* The loop body with a catch block that leaves the timeline where it is  *)
(* below the error threshold.                                              *)
LoopBodyRetriesBeat(w, effect, interval, beatNumerator) ==
    LET invoked == w.s.schedulerCallback # "null"
        w0 == IF invoked
              THEN [w EXCEPT !.g.dispatched = TRUE,
                             !.g.lastTime = w.s.nextBeatTime,
                             !.g.lastBeat = w.s.currentBeat,
                             !.g.firstDue = 0,
                             !.g.lateStart = FALSE,
                             !.g.beatEvents = <<>>,
                             !.g.realigned = FALSE,
                             !.g.sigChanged = FALSE]
              ELSE w
        w1 == InvokeCallback(w0, effect)
        threw == invoked /\ effect.kind = "throw"
    IN IF ~threw
       THEN [w |-> [w1 EXCEPT !.s.nextBeatTime = @ + interval,
                              !.s.currentBeat = (@ % beatNumerator) + 1,
                              !.s.errorCount = 0,
                              !.g.failStreak = IF invoked THEN 0 ELSE @,
                              !.g.callbackReturned = @ \/ invoked],
             done |-> FALSE]
       ELSE LET w2 == [w1 EXCEPT !.s.errorCount = @ + 1, !.g.failStreak = @ + 1]
            IN IF w2.s.errorCount >= maxAllowedErrors
               THEN [w |-> AttemptRecovery([Stop(w2) EXCEPT !.g.stopCause = "errors"]),
                     done |-> TRUE]
               ELSE [w |-> w2, done |-> FALSE]

(* One pass through the body of schedulerLoop's while loop. done tells     *)
(* whether the loop was left through the error threshold's return.         *)
LoopBody(w, effect, interval, beatNumerator) ==
    LET invoked == w.s.schedulerCallback # "null"
        w0 == IF invoked
              THEN [w EXCEPT !.g.dispatched = TRUE,
                             !.g.lastTime = w.s.nextBeatTime,
                             !.g.lastBeat = w.s.currentBeat,
                             !.g.firstDue = 0,
                             !.g.lateStart = FALSE,
                             !.g.beatEvents = <<>>,
                             !.g.realigned = FALSE,
                             !.g.sigChanged = FALSE]
              ELSE w
        w1 == InvokeCallback(w0, effect)
        threw == invoked /\ effect.kind = "throw"
    IN IF ~threw
       THEN [w |-> [w1 EXCEPT !.s.nextBeatTime = @ + interval,
                              !.s.currentBeat = (@ % beatNumerator) + 1,
                              !.s.errorCount = 0,
                              !.g.failStreak = IF invoked THEN 0 ELSE @,
                              !.g.callbackReturned = @ \/ invoked],
             done |-> FALSE]
       ELSE LET w2 == [w1 EXCEPT !.s.errorCount = @ + 1, !.g.failStreak = @ + 1]
            IN IF w2.s.errorCount >= maxAllowedErrors
               THEN [w |-> AttemptRecovery([Stop(w2) EXCEPT !.g.stopCause = "errors"]),
                     done |-> TRUE]
               ELSE [w |-> [w2 EXCEPT !.s.nextBeatTime = @ + interval,
                                      !.s.currentBeat = (@ % beatNumerator) + 1],
                     done |-> FALSE]

(* The end of schedulerLoop(): compute the delay and re-arm the timer.     *)
LoopExit(w, loopTime) ==
    LET timeUntilNextSchedule == w.s.nextBeatTime - loopTime - scheduleAheadTime
        scheduleTime == IF timeUntilNextSchedule <= 0
                        THEN 0
                        ELSE Max(minScheduleInterval, Min(timeUntilNextSchedule, maxScheduleInterval))
        w1 == [w EXCEPT !.g.afterSuspension = FALSE]
    IN IF w.s.isRunning THEN ArmTick(w1, scheduleTime) ELSE w1

----------------------------------------------------------------------------
(* Actions *)

NoCall == [op |-> "none", arg |-> 0, ret |-> "none"]

(* a value that is not a number (the string 'value') *)
StringValue == -2000000

(* the key paths given to updateConfig, split at the dots; <<>> is the     *)
(* empty string                                                            *)
ConfigPaths ==
    {<<>>, <<"defaultBPM">>, <<"maxBPM">>, <<"defaultVolume">>, <<"nonExistentConfig">>,
     <<"training", "defaultIncrement">>, <<"missing", "key">>, <<"defaultBPM", "key">>}

(* the values given to updateConfig *)
ConfigValues == {StringValue, NaN, 130, 1000}

(* export const CONFIG = {...}: the entries the model keeps *)
CONFIG ==
    [defaultBPM |-> defaultBPM, minBPM |-> MIN_BPM, maxBPM |-> MAX_BPM,
     defaultVolume |-> 50, training |-> [defaultIncrement |-> 5]]

(* the modules initialize({useDependencyGraph: true}) registers, in this   *)
(* order                                                                   *)
CoreModules ==
    <<"scheduler", "metronome", "uiController", "keyboardController",
      "trainingCore", "trainingUIController">>

CoreDependencies ==
    [scheduler |-> <<>>, metronome |-> <<"scheduler">>, uiController |-> <<>>,
     keyboardController |-> <<"uiController">>, trainingCore |-> <<>>,
     trainingUIController |-> <<"metronome", "uiController">>]

(* the modules the application registers itself before it initialises *)
PluginModules == {"pluginA", "pluginB"}

ModuleIds == PluginModules \cup {CoreModules[i] : i \in 1..Len(CoreModules)}

(* the dependency lists of the modules the application registers;          *)
(* "missing" is a module that is never registered                          *)
DependencyLists ==
    {<<>>, <<"pluginB">>, <<"metronome">>, <<"missing", "pluginA">>}

NoOrder == [calculated |-> FALSE, order |-> <<>>, error |-> FALSE]

(* the behaviour of a listener that only returns *)
Returns == [kind |-> "returns", target |-> Null]

NoLocals == [currentTime |-> 0, interval |-> 0, beatNumerator |-> 0, scheduleCount |-> 0]

(* Commit a world and the outcome of a loop entry. *)
Commit(w, enter) ==
    /\ scheduler' = w.s
    /\ state' = w.st
    /\ timers' = w.tm
    /\ hist' = w.g
    /\ pc' = IF enter THEN "loop" ELSE "idle"
    /\ loopLocals' = IF enter
                     THEN [currentTime |-> AudioNow, interval |-> 60000 \div w.st.bpm,
                           beatNumerator |-> w.st.beatNumerator, scheduleCount |-> 0]
                     ELSE NoLocals

Init ==
    /\ audioErrorBoundary = [hasError |-> FALSE, autoRecovery |-> FALSE, hasInitializer |-> FALSE]
    /\ pendingRecovery = 0
    /\ boundaryHist = [attempts |-> 0]
    /\ locks = {}
    /\ lockTimers = {}
    /\ lockHist = [k \in {"toggle", "bpm"} |-> 0]
    /\ trainingSessionManager = [sessionId |-> 0, segments |-> <<>>, currentSegmentIndex |-> 0,
                                 currentRepeat |-> 1, remainingBeats |-> 0, isRunning |-> FALSE,
                                 listening |-> FALSE]
    /\ toggleLock = FALSE
    /\ trainingHist = [segments |-> <<>>, played |-> <<>>, complete |-> 0,
                       runningAtComplete |-> FALSE]
    /\ pendingStart = "none"
    /\ scheduler = [audioContext |-> "null", isRunning |-> FALSE, currentBeat |-> 1,
                    nextBeatTime |-> 0, schedulerCallback |-> "null", lastUpdateTime |-> NeverUpdated,
                    timerID |-> Null, errorCount |-> 0, recoveryTimeout |-> Null]
    /\ state = [bpm |-> defaultBPM, beatNumerator |-> defaultBeatNumerator,
                beatDenominator |-> defaultBeatDenominator, isRunning |-> FALSE,
                currentBeat |-> 0, currentBar |-> 0]
    /\ metronomeState = [isInitialized |-> FALSE, soundBuffersReady |-> FALSE]
    /\ timers = {}
    /\ stateChangePending = FALSE
    /\ pc = "idle"
    /\ loopLocals = NoLocals
    /\ lastCall = NoCall
    /\ metronomeInstance = [initialized |-> FALSE, isPlaying |-> FALSE, currentBeat |-> 0]
    /\ soundSystem = [initialized |-> FALSE, cleanupTimerId |-> Null, sweepDue |-> 0]
    /\ activeAudioNodes = {}
    /\ audioSources = {}
    /\ listeners = <<>>
    /\ listenerBehaviour = [l \in ListenerIds |-> Returns]
    /\ listenerCalls = <<>>
    /\ config = CONFIG
    /\ appInitializer = [isInitializing |-> FALSE, isInitialized |-> FALSE,
                         moduleRegistry |-> <<>>,
                         dependencies |-> [id \in ModuleIds |-> <<>>],
                         initialized |-> {}, initializedModules |-> <<>>]
    /\ initializationOrder = NoOrder
    /\ hist = [dispatched |-> FALSE, lastTime |-> 0, lastBeat |-> 0,
               sigChanged |-> FALSE, realigned |-> FALSE, afterSuspension |-> FALSE,
               failStreak |-> 0, callbackReturned |-> FALSE, stopCause |-> "none",
               soundFailures |-> 0, beatEvents |-> <<>>, firstDue |-> 0,
               lateStart |-> FALSE]

(* initMetronome(): scheduler.init(), then initSoundBuffers() *)
InitMetronomeAct ==
    /\ pc = "idle"
    /\ ~metronomeState.isInitialized
    /\ \E created \in {"running", "suspended", "fail"}, buffersOk \in BOOLEAN :
          LET w == SchedulerInit(World, created)
              ok == w.ret # "throw" /\ buffersOk
          IN /\ metronomeState' = [isInitialized |-> ok, soundBuffersReady |-> ok]
             /\ Commit(w, FALSE)
             /\ lastCall' = NoCall
             /\ UNCHANGED auxVars
    /\ UNCHANGED stateChangePending

StartMetronomeAct ==
    /\ pc = "idle"
    /\ LET r == StartMetronome(World) IN Commit(r.w, r.enter)
    /\ UNCHANGED <<metronomeState, stateChangePending>>
    /\ lastCall' = NoCall
    /\ UNCHANGED auxVars

StopMetronomeAct ==
    /\ pc = "idle"
    /\ Commit(StopMetronome(World), FALSE)
    /\ UNCHANGED <<metronomeState, stateChangePending>>
    /\ lastCall' = NoCall
    /\ UNCHANGED auxVars

SetBPMAct ==
    /\ pc = "idle"
    /\ \E b \in BpmInputs :
          /\ Commit(SetBPM(World, b), FALSE)
          /\ lastCall' = NoCall
          /\ UNCHANGED auxVars
    /\ UNCHANGED <<metronomeState, stateChangePending>>

SetTimeSignatureAct ==
    /\ pc = "idle"
    /\ \E n \in NumeratorInputs, d \in DenominatorInputs :
          /\ Commit(SetTimeSignature(World, n, d), FALSE)
          /\ lastCall' = NoCall
          /\ UNCHANGED auxVars
    /\ UNCHANGED <<metronomeState, stateChangePending>>

(* scheduler.start(cb) called directly with a callback of the caller *)
SchedulerStartAct ==
    /\ pc = "idle"
    /\ LET r == SchedulerStart(World, "raw") IN Commit(r.w, r.enter)
    /\ UNCHANGED <<metronomeState, stateChangePending>>
    /\ lastCall' = [op |-> "scheduler.start", arg |-> 0, ret |-> SchedulerStart(World, "raw").w.ret]
    /\ UNCHANGED auxVars

(* scheduler.start(callback) with a callback that uses the scheduler *)
SchedulerStartReentrantAct ==
    /\ pc = "idle"
    /\ LET r == SchedulerStart(World, "reentrant") IN Commit(r.w, r.enter)
    /\ UNCHANGED <<metronomeState, stateChangePending>>
    /\ lastCall' = [op |-> "scheduler.start", arg |-> 0,
                    ret |-> SchedulerStart(World, "reentrant").w.ret]
    /\ UNCHANGED auxVars

(* scheduler.stop() called directly *)
SchedulerStopAct ==
    /\ pc = "idle"
    /\ Commit(Stop(World), FALSE)
    /\ UNCHANGED <<metronomeState, stateChangePending>>
    /\ lastCall' = [op |-> "scheduler.stop", arg |-> 0, ret |-> Stop(World).ret]
    /\ UNCHANGED auxVars

(* A pending tick timer fires: schedulerLoop() runs up to its while loop. *)
TickAct ==
    /\ pc = "idle"
    /\ \E t \in timers :
          /\ t.kind = "tick"
          /\ WallNow >= t.due
          /\ LET r == LoopEntry(FireTimer(World, t))
             IN Commit(r.w, r.enter)
    /\ UNCHANGED <<metronomeState, stateChangePending>>
    /\ lastCall' = NoCall
    /\ UNCHANGED auxVars

(* One iteration of the while loop: one beat is handed to the callback. *)
LoopIterationAct ==
    /\ pc = "loop"
    /\ scheduler.nextBeatTime < loopLocals.currentTime + scheduleAheadTime
    /\ loopLocals.scheduleCount < maxSchedulesPerIteration
    /\ \E effect \in EffectsOf(scheduler.schedulerCallback) :
          LET r == LoopBody(World, effect, loopLocals.interval, loopLocals.beatNumerator)
          IN /\ scheduler' = r.w.s
             /\ state' = r.w.st
             /\ timers' = r.w.tm
             /\ hist' = r.w.g
             /\ pc' = IF r.done THEN "idle" ELSE "loop"
             /\ loopLocals' = IF r.done THEN NoLocals
                              ELSE [loopLocals EXCEPT !.scheduleCount = @ + 1]
    /\ UNCHANGED <<metronomeState, stateChangePending>>
    /\ lastCall' = NoCall
    /\ UNCHANGED auxVars

(* The while condition is false: re-arm and return. *)
LoopExitAct ==
    /\ pc = "loop"
    /\ ~(/\ scheduler.nextBeatTime < loopLocals.currentTime + scheduleAheadTime
         /\ loopLocals.scheduleCount < maxSchedulesPerIteration)
    /\ Commit(LoopExit(World, loopLocals.currentTime), FALSE)
    /\ UNCHANGED <<metronomeState, stateChangePending>>
    /\ lastCall' = NoCall
    /\ UNCHANGED auxVars

(* The recovery timer set by attemptRecovery() fires. *)
RecoveryAct ==
    /\ pc = "idle"
    /\ \E t \in timers, created \in {"running", "suspended", "fail"} :
          /\ t.kind = "recovery"
          /\ WallNow >= t.due
          /\ LET w0 == [FireTimer(World, t) EXCEPT !.s.errorCount = 0]
                 w1 == IF w0.s.audioContext \in {"null", "closed"}
                       THEN SchedulerInit(w0, created)
                       ELSE w0
             IN Commit([w1 EXCEPT !.s.recoveryTimeout = Null, !.ret = "none"], FALSE)
    /\ UNCHANGED <<metronomeState, stateChangePending>>
    /\ lastCall' = NoCall
    /\ UNCHANGED auxVars

(* d ms pass.  Wall-clock times (timer due times, lastUpdateTime) move d   *)
(* into the past; a timer that is due stays due, and of lastUpdateTime     *)
(* only "less than minScheduleInterval ago" is ever asked.  Audio          *)
(* timestamps move into the past only while the context is running.  A     *)
(* running scheduler's timer is at most MaxLag late.  While the scheduler  *)
(* is stopped nextBeatTime is never read before start() or                 *)
(* updateInterval() overwrite it, and the last dispatched timestamp is     *)
(* only compared with nextBeatTime, so both are kept no further than       *)
(* MaxLag in the past.                                                     *)
ShiftWall(t, d) == IF t = NeverUpdated THEN NeverUpdated ELSE Max(t - d, WallNow - minScheduleInterval)

ShiftAudio(t, d) == Max(t - d, AudioNow - MaxLag - 50)

(* the last dispatched timestamp: until the timeline is re-based it is     *)
(* kept exact as long as it can lie within one beat interval (at most      *)
(* 60000 / MIN_BPM ms) of nextBeatTime                                     *)
ShiftLast(t, d) == Max(t - d, AudioNow - MaxLag - (60000 \div MIN_BPM) - 1)

AdvanceAct ==
    /\ pc = "idle"
    /\ \E d \in TimeSteps :
          LET audio == IF scheduler.audioContext = "running" THEN d ELSE 0
          IN /\ scheduler.isRunning => scheduler.nextBeatTime - audio >= AudioNow - MaxLag
             /\ scheduler' = [scheduler EXCEPT !.nextBeatTime = ShiftAudio(@, audio),
                                               !.lastUpdateTime = ShiftWall(@, d)]
             /\ timers' = {[t EXCEPT !.due = Max(WallNow, @ - d)] : t \in timers}
             /\ hist' = [hist EXCEPT !.lastTime = IF ~hist.dispatched THEN @
                                                ELSE IF hist.realigned THEN ShiftAudio(@, audio)
                                                ELSE ShiftLast(@, audio),
                                     !.firstDue = IF scheduler.isRunning /\ ~hist.dispatched
                                                  THEN ShiftAudio(@, audio)
                                                  ELSE @]
    /\ UNCHANGED <<state, metronomeState, stateChangePending, pc, loopLocals>>
    /\ lastCall' = NoCall
    /\ UNCHANGED auxVars

(* The host suspends the audio context. *)
ContextSuspendAct ==
    /\ pc = "idle"
    /\ scheduler.audioContext = "running"
    /\ scheduler' = [scheduler EXCEPT !.audioContext = "suspended"]
    /\ UNCHANGED <<state, metronomeState, timers, stateChangePending, pc, loopLocals, hist>>
    /\ lastCall' = NoCall
    /\ UNCHANGED auxVars

(* A requested resume() completes. *)
ContextResumeAct ==
    /\ pc = "idle"
    /\ scheduler.audioContext = "suspended"
    /\ scheduler' = [scheduler EXCEPT !.audioContext = "running"]
    /\ UNCHANGED <<state, metronomeState, timers, stateChangePending, pc, loopLocals, hist>>
    /\ lastCall' = NoCall
    /\ UNCHANGED auxVars

(* The audio context is closed (Metronome.destroy closes the shared context). *)
ContextCloseAct ==
    /\ pc = "idle"
    /\ scheduler.audioContext \in {"running", "suspended"}
    /\ scheduler' = [scheduler EXCEPT !.audioContext = "closed"]
    /\ stateChangePending' = TRUE
    /\ UNCHANGED <<state, metronomeState, timers, pc, loopLocals, hist>>
    /\ lastCall' = NoCall
    /\ UNCHANGED auxVars

(* audioContext.onstatechange for the closed state: scheduler.reset() *)
OnStateChangeAct ==
    /\ pc = "idle"
    /\ stateChangePending
    /\ stateChangePending' = FALSE
    /\ IF scheduler.audioContext = "closed"
       THEN Commit([Reset(World) EXCEPT !.ret = "none"], FALSE)
       ELSE Commit(World, FALSE)
    /\ UNCHANGED metronomeState
    /\ lastCall' = NoCall
    /\ UNCHANGED auxVars

(* scheduler.init() called directly *)
SchedulerInitAct ==
    /\ pc = "idle"
    /\ scheduler.audioContext = "null"
    /\ \E created \in {"running", "suspended", "fail"} :
          /\ Commit(SchedulerInit(World, created), FALSE)
          /\ lastCall' = NoCall
          /\ UNCHANGED auxVars
    /\ UNCHANGED <<metronomeState, stateChangePending>>

(* setBPM(newBPM) called by the application with any number *)
SetBPMCallAct ==
    /\ pc = "idle"
    /\ \E b \in TempoInputs :
          /\ Commit(SetBPM(World, b), FALSE)
          /\ lastCall' = [op |-> "setBPM", arg |-> b, ret |-> SetBPM(World, b).ret]
          /\ UNCHANGED auxVars
    /\ UNCHANGED <<metronomeState, stateChangePending>>

(* Metronome.setBPM(bpm) called by the application with any number *)
MetronomeSetBPMCallAct ==
    /\ pc = "idle"
    /\ \E b \in TempoInputs :
          /\ Commit(MetronomeSetBPM(World, b), FALSE)
          /\ lastCall' = [op |-> "Metronome.setBPM", arg |-> b, ret |-> MetronomeSetBPM(World, b).ret]
          /\ UNCHANGED auxVars
    /\ UNCHANGED <<metronomeState, stateChangePending>>

(* Metronome.initialize(): initialises the scheduler if it holds no audio  *)
(* context, and fails when there is none afterwards.                       *)
MetronomeInitialize(w, created) ==
    LET w1 == IF w.s.audioContext = "null" THEN SchedulerInit(w, created) ELSE w
    IN [w1 EXCEPT !.ret = IF w1.s.audioContext = "null" THEN "throw" ELSE "undefined"]

(* initMetronome() of metronome.js *)
MetronomeInitializeAct ==
    /\ pc = "idle"
    /\ ~metronomeInstance.initialized
    /\ \E created \in {"running", "suspended", "fail"} :
          LET w == MetronomeInitialize(World, created)
          IN /\ metronomeInstance' = [metronomeInstance EXCEPT !.initialized = (w.ret # "throw")]
             /\ Commit(w, FALSE)
    /\ lastCall' = NoCall
    /\ UNCHANGED notClassVars
    /\ UNCHANGED <<metronomeState, stateChangePending>>

(* Metronome.start(): initialises if needed, resumes a suspended context   *)
(* (resumed tells whether the awaited resume() succeeds), resets its beat  *)
(* count and starts the scheduler with a callback that calls _playBeat.    *)
(* It also publishes isPlaying, a key of the state that nothing here reads. *)
MetronomeStartAct ==
    /\ pc = "idle"
    /\ \E created \in {"running", "suspended", "fail"}, resumed \in BOOLEAN :
          LET w1 == IF metronomeInstance.initialized THEN World
                    ELSE MetronomeInitialize(World, created)
              initialized == metronomeInstance.initialized \/ w1.ret # "throw"
              suspended == w1.s.audioContext = "suspended"
              w2 == IF suspended /\ resumed THEN [w1 EXCEPT !.s.audioContext = "running"] ELSE w1
              r == SchedulerStart(w2, "playBeat")
          IN IF ~initialized \/ (suspended /\ ~resumed)
             THEN /\ metronomeInstance' = [metronomeInstance EXCEPT !.initialized = initialized,
                                                                    !.isPlaying = FALSE]
                  /\ Commit([w1 EXCEPT !.ret = "false"], FALSE)
             ELSE /\ metronomeInstance' = [initialized |-> TRUE, isPlaying |-> (r.w.ret = "true"),
                                           currentBeat |-> 0]
                  /\ Commit(r.w, r.enter)
    /\ lastCall' = NoCall
    /\ UNCHANGED notClassVars
    /\ UNCHANGED <<metronomeState, stateChangePending>>

(* Metronome.stop() *)
MetronomeStopAct ==
    /\ pc = "idle"
    /\ IF ~metronomeInstance.isPlaying
       THEN /\ Commit(World, FALSE)
            /\ UNCHANGED metronomeInstance
       ELSE /\ metronomeInstance' = [metronomeInstance EXCEPT !.isPlaying = FALSE]
            /\ Commit(Stop(World), FALSE)
    /\ lastCall' = NoCall
    /\ UNCHANGED notClassVars
    /\ UNCHANGED <<metronomeState, stateChangePending>>

(* Metronome.setBPM(bpm) called while the class drives the scheduler *)
MetronomeSetBPMAct ==
    /\ pc = "idle"
    /\ \E b \in BpmInputs : Commit(MetronomeSetBPM(World, b), FALSE)
    /\ lastCall' = NoCall
    /\ UNCHANGED <<metronomeState, stateChangePending, metronomeInstance>>
    /\ UNCHANGED notClassVars

----------------------------------------------------------------------------
(* Metronome.start() of metronome.js as the asynchronous function it is:   *)
(* the call is suspended at `await this.initialize()` when the scheduler   *)
(* has to create its audio context, and at `await                          *)
(* this.audioContext.resume()` when the context is suspended; other calls  *)
(* run while it is suspended.                                              *)

ClassWorld == [w |-> World, m |-> metronomeInstance, pending |-> "none", enter |-> FALSE]

(* start() from `this.currentBeat = 0` to its end: scheduler.start(...),   *)
(* and the catch block when it returns false                               *)
StartFinish(c) ==
    LET r == SchedulerStart(c.w, "playBeat")
    IN IF r.w.ret = "true"
       THEN [c EXCEPT !.w = r.w, !.enter = r.enter, !.m.currentBeat = 0, !.pending = "none"]
       ELSE [c EXCEPT !.w = r.w, !.m.currentBeat = 0, !.m.isPlaying = FALSE, !.pending = "none"]

(* start() from `this.isPlaying = true` to the await of resume() or, if    *)
(* the context is not suspended, to its end                                *)
StartSetPlaying(c) ==
    LET c1 == [c EXCEPT !.m.isPlaying = TRUE]
    IN IF c1.w.s.audioContext = "suspended"
       THEN [c1 EXCEPT !.pending = "resume"]
       ELSE StartFinish(c1)

(* start() up to its first await *)
StartBegin(c) ==
    IF ~c.m.initialized /\ c.w.s.audioContext = "null"
    THEN [c EXCEPT !.pending = "initialize"]
    ELSE StartSetPlaying([c EXCEPT !.m.initialized = TRUE])

(* start() after `await this.initialize()`; created is the state of the    *)
(* context created by scheduler.init(), "fail" if there is none            *)
StartAfterInitialize(c, created) ==
    IF c.m.initialized
    THEN StartSetPlaying(c)
    ELSE LET w == MetronomeInitialize(c.w, created)
         IN IF w.ret = "throw"
            THEN [c EXCEPT !.w = w, !.m.isPlaying = FALSE, !.pending = "none"]
            ELSE StartSetPlaying([c EXCEPT !.w = w, !.m.initialized = TRUE])

(* start() after `await this.audioContext.resume()`; resumed tells whether *)
(* the promise was fulfilled                                               *)
StartAfterResume(c, resumed) ==
    IF ~resumed
    THEN [c EXCEPT !.m.isPlaying = FALSE, !.pending = "none"]
    ELSE StartFinish([c EXCEPT !.w.s.audioContext =
                                   IF @ = "suspended" THEN "running" ELSE @])

CommitClass(c) ==
    /\ metronomeInstance' = c.m
    /\ pendingStart' = c.pending
    /\ Commit(c.w, c.enter)
    /\ lastCall' = NoCall
    /\ UNCHANGED notAsyncVars

(* Metronome.start() is called while no other start() is suspended *)
MetronomeStartBeginAct ==
    /\ pc = "idle"
    /\ pendingStart = "none"
    /\ CommitClass(StartBegin(ClassWorld))

(* the promise of initialize() is settled *)
MetronomeStartAfterInitializeAct ==
    /\ pc = "idle"
    /\ pendingStart = "initialize"
    /\ \E created \in {"running", "suspended", "fail"} :
          CommitClass(StartAfterInitialize(ClassWorld, created))

(* the promise of audioContext.resume() is settled *)
MetronomeStartAfterResumeAct ==
    /\ pc = "idle"
    /\ pendingStart = "resume"
    /\ \E resumed \in BOOLEAN : CommitClass(StartAfterResume(ClassWorld, resumed))

(* Metronome.toggle(): stop() if isPlaying, else start() *)
MetronomeToggleAct ==
    /\ pc = "idle"
    /\ IF metronomeInstance.isPlaying
       THEN CommitClass([ClassWorld EXCEPT !.w = Stop(@), !.m.isPlaying = FALSE,
                                           !.pending = pendingStart])
       ELSE /\ pendingStart = "none"
            /\ CommitClass(StartBegin(ClassWorld))

----------------------------------------------------------------------------
(* The registry of active audio nodes of soundBuffers.js *)

(* the handlers act on a record: a.sys the module's flags and interval     *)
(* timer, a.nodes the keys of activeAudioNodes, a.sources the sources that *)
(* still have a callback to come                                           *)
NodeWorld == [sys |-> soundSystem, nodes |-> activeAudioNodes, sources |-> audioSources]

(* const cleanupDelay = Math.max(100, actualDuration * 1000 + 50) *)
CleanupDelay(duration) == Max(100, duration + 50)

(* a source with neither callback to come and no registry entry is garbage *)
Collect(a) ==
    [a EXCEPT !.sources = {src \in @ : src.timeoutPending \/ src.endPending \/ src.id \in a.nodes}]

(* startPeriodicCleanup() *)
StartPeriodicCleanup(sys) == [sys EXCEPT !.cleanupTimerId = 1, !.sweepDue = SweepInterval]

(* stopPeriodicCleanup() *)
StopPeriodicCleanup(sys) == [sys EXCEPT !.cleanupTimerId = Null, !.sweepDue = 0]

(* playSoundInternal(options) that arms the per-node timeout only after    *)
(* source.start() has succeeded                                            *)
PlaySoundInternalTimeoutAfterStart(a, id, duration, outcome) ==
    IF ~a.sys.initialized \/ outcome = "createThrows"
    THEN a
    ELSE Collect([a EXCEPT !.nodes = @ \cup {id},
                           !.sources = @ \cup {[id |-> id, age |-> 0, delay |-> CleanupDelay(duration),
                                                timeoutPending |-> (outcome = "ok"),
                                                endPending |-> (outcome = "ok")]},
                           !.sys = IF @.cleanupTimerId = Null THEN StartPeriodicCleanup(@) ELSE @])

(* playSoundInternal(options): id is the new node's key, duration the      *)
(* sound's length in ms; outcome "createThrows": creating the nodes        *)
(* throws, nothing is registered; "startThrows": source.start() throws     *)
(* after the node was registered and its timeout armed; "ok": the source   *)
(* is started and will end.                                                *)
PlaySoundInternal(a, id, duration, outcome) ==
    IF ~a.sys.initialized \/ outcome = "createThrows"
    THEN a
    ELSE [a EXCEPT !.nodes = @ \cup {id},
                   !.sources = @ \cup {[id |-> id, age |-> 0, delay |-> CleanupDelay(duration),
                                        timeoutPending |-> TRUE,
                                        endPending |-> (outcome = "ok")]},
                   !.sys = IF @.cleanupTimerId = Null THEN StartPeriodicCleanup(@) ELSE @]

(* source.onended *)
SourceEnded(a, id) ==
    Collect([a EXCEPT !.nodes = @ \ {id},
                      !.sources = {IF src.id = id THEN [src EXCEPT !.endPending = FALSE] ELSE src
                                   : src \in @}])

(* the per-node setTimeout callback *)
NodeTimeout(a, id) ==
    Collect([a EXCEPT !.nodes = @ \ {id},
                      !.sources = {IF src.id = id THEN [src EXCEPT !.timeoutPending = FALSE] ELSE src
                                   : src \in @}])

(* the setInterval callback: cleanupExpiredNodes(), then stop the interval *)
(* if the registry is empty                                                *)
Sweep(a) ==
    LET expired == {src.id : src \in {x \in a.sources : x.id \in a.nodes /\ x.age > MAX_NODE_LIFETIME}}
        nodes == a.nodes \ expired
    IN Collect([a EXCEPT !.nodes = nodes,
                         !.sys = IF nodes = {} THEN StopPeriodicCleanup(@)
                                 ELSE [@ EXCEPT !.sweepDue = SweepInterval]])

(* cleanupAudioResources() *)
CleanupAudioResources(a) ==
    Collect([a EXCEPT !.nodes = {},
                      !.sys = [StopPeriodicCleanup(@) EXCEPT !.initialized = FALSE]])

CommitNodes(a) ==
    /\ soundSystem' = a.sys
    /\ activeAudioNodes' = a.nodes
    /\ audioSources' = a.sources
    /\ UNCHANGED notNodeVars

(* initSoundBuffers() *)
InitSoundBuffersAct ==
    /\ ~soundSystem.initialized
    /\ CommitNodes([NodeWorld EXCEPT !.sys.initialized = TRUE])

(* playSound(options); the key of the new node is one no source uses *)
PlaySoundAct ==
    \E id \in NodeIds, duration \in SoundDurations, outcome \in {"ok", "startThrows", "createThrows"} :
        /\ id \notin activeAudioNodes
        /\ \A src \in audioSources : src.id # id
        /\ CommitNodes(PlaySoundInternal(NodeWorld, id, duration, outcome))

SourceEndedOf(id) ==
    /\ \E src \in audioSources : src.id = id /\ src.endPending
    /\ CommitNodes(SourceEnded(NodeWorld, id))

SourceEndedAct == \E id \in NodeIds : SourceEndedOf(id)

NodeTimeoutOf(id) ==
    /\ \E src \in audioSources : src.id = id /\ src.timeoutPending /\ src.age >= src.delay
    /\ CommitNodes(NodeTimeout(NodeWorld, id))

NodeTimeoutAct == \E id \in NodeIds : NodeTimeoutOf(id)

SweepAct ==
    /\ soundSystem.cleanupTimerId # Null
    /\ soundSystem.sweepDue = 0
    /\ CommitNodes(Sweep(NodeWorld))

CleanupAudioResourcesAct == CommitNodes(CleanupAudioResources(NodeWorld))

(* d ms pass: every source gets older (an age beyond MAX_NODE_LIFETIME is   *)
(* kept as "older"), the interval comes nearer.  Timers may run late.      *)
AdvanceNodesAct ==
    \E d \in NodeTimeSteps :
        /\ audioSources # {}
        /\ CommitNodes([NodeWorld EXCEPT
               !.sources = {[src EXCEPT !.age = Min(@ + d, MAX_NODE_LIFETIME + 100)] : src \in @},
               !.sys.sweepDue = Max(0, @ - d)])

----------------------------------------------------------------------------
(* The application initialiser of init.js *)

SeqRange(seq) == {seq[i] : i \in 1..Len(seq)}

(* this._moduleRegistry[moduleId] is defined *)
Registered(app, moduleId) == moduleId \in SeqRange(app.moduleRegistry)

(* registerModule(moduleId, module, dependencies): a key that is new is    *)
(* added after the others, a key that exists keeps its place               *)
RegisterModule(app, moduleId, dependencies) ==
    [app EXCEPT !.moduleRegistry = IF Registered(app, moduleId) THEN @ ELSE Append(@, moduleId),
                !.dependencies[moduleId] = dependencies,
                !.initialized = @ \ {moduleId}]

RECURSIVE Dfs(_, _, _, _)
RECURSIVE DfsDependencies(_, _, _, _, _)
RECURSIVE DfsModules(_, _, _)

(* dfs(moduleId, path) that puts the module into the result before its     *)
(* dependencies                                                            *)
DfsPreOrder(app, moduleId, path, acc) ==
    IF acc.error
    THEN acc
    ELSE IF moduleId \in SeqRange(path)
    THEN [acc EXCEPT !.error = TRUE]
    ELSE IF moduleId \in acc.visited
    THEN acc
    ELSE DfsDependencies(app, app.dependencies[moduleId], 1, Append(path, moduleId),
                         [acc EXCEPT !.visited = @ \cup {moduleId},
                                     !.result = Append(@, moduleId)])

(* dfs(moduleId, path) of _calculateInitializationOrder; acc holds the     *)
(* closure's visited and result, and error once the cycle error is thrown  *)
Dfs(app, moduleId, path, acc) ==
    IF acc.error
    THEN acc
    ELSE IF moduleId \in SeqRange(path)
    THEN [acc EXCEPT !.error = TRUE]
    ELSE IF moduleId \in acc.visited
    THEN acc
    ELSE LET after == DfsDependencies(app, app.dependencies[moduleId], 1, Append(path, moduleId),
                                      [acc EXCEPT !.visited = @ \cup {moduleId}])
         IN IF after.error THEN after ELSE [after EXCEPT !.result = Append(@, moduleId)]

(* for (const depId of module.dependencies) from position i on *)
DfsDependencies(app, dependencies, i, path, acc) ==
    IF acc.error \/ i > Len(dependencies)
    THEN acc
    ELSE DfsDependencies(app, dependencies, i + 1, path,
                         IF Registered(app, dependencies[i])
                         THEN Dfs(app, dependencies[i], path, acc)
                         ELSE acc)

(* for (const moduleId in this._moduleRegistry) from position i on *)
DfsModules(app, i, acc) ==
    IF acc.error \/ i > Len(app.moduleRegistry)
    THEN acc
    ELSE DfsModules(app, i + 1,
                    IF app.moduleRegistry[i] \in acc.visited
                    THEN acc
                    ELSE Dfs(app, app.moduleRegistry[i], <<>>, acc))

(* _calculateInitializationOrder() *)
CalculateInitializationOrder(app) ==
    LET acc == DfsModules(app, 1, [visited |-> {}, result |-> <<>>, error |-> FALSE])
    IN [calculated |-> TRUE, order |-> IF acc.error THEN <<>> ELSE acc.result, error |-> acc.error]

(* the state the initialiser works on: the AppInitializer object, the      *)
(* scheduler's world, the Metronome object, the computed order             *)
InitWorld ==
    [app |-> appInitializer, w |-> World, m |-> metronomeInstance,
     order |-> initializationOrder, ret |-> "none"]

(* _initializeModule(moduleId); created is what a new audio context would  *)
(* be, uiOk whether uiController.init() succeeds                           *)
InitializeModule(i, moduleId, created, uiOk) ==
    IF moduleId \in i.app.initialized
    THEN i
    ELSE LET w == IF moduleId = "scheduler" THEN SchedulerInit(i.w, created)
                  ELSE IF moduleId = "metronome" THEN MetronomeInitialize(i.w, created)
                  ELSE i.w
             thrown == \/ moduleId \in {"scheduler", "metronome"} /\ w.ret = "throw"
                       \/ moduleId = "uiController" /\ ~uiOk
         IN IF thrown
            THEN [i EXCEPT !.w = w, !.ret = "throw"]
            ELSE [i EXCEPT !.w = w,
                           !.m.initialized = IF moduleId = "metronome" THEN TRUE ELSE @,
                           !.app.initialized = @ \cup {moduleId},
                           !.app.initializedModules =
                               IF moduleId \in SeqRange(@) THEN @ ELSE Append(@, moduleId)]

RECURSIVE InitializeModules(_, _, _, _, _)
(* for (const moduleId of initializationOrder) from position k on *)
InitializeModules(i, order, k, created, uiOk) ==
    IF i.ret = "throw" \/ k > Len(order)
    THEN i
    ELSE InitializeModules(InitializeModule(i, order[k], created, uiOk), order, k + 1, created, uiOk)

RECURSIVE RegisterCoreModules(_, _)
RegisterCoreModules(app, k) ==
    IF k > Len(CoreModules)
    THEN app
    ELSE RegisterCoreModules(RegisterModule(app, CoreModules[k], CoreDependencies[CoreModules[k]]), k + 1)

(* _initializeWithDependencyGraph() *)
InitializeWithDependencyGraph(i, created, uiOk) ==
    LET order == CalculateInitializationOrder(i.app)
    IN IF order.error
       THEN [i EXCEPT !.order = order, !.ret = "throw"]
       ELSE InitializeModules([i EXCEPT !.order = order], order.order, 1, created, uiOk)

(* the traditional initialisation sequence of initialize(): the failures   *)
(* of the scheduler and of the metronome are thrown, the others handled    *)
LegacyInitialize(i, created) ==
    LET w1 == SchedulerInit(i.w, created)
        w2 == MetronomeInitialize(w1, created)
    IN IF w1.ret = "throw"
       THEN [i EXCEPT !.w = w1, !.ret = "throw"]
       ELSE IF w2.ret = "throw"
       THEN [i EXCEPT !.w = w2, !.ret = "throw"]
       ELSE [i EXCEPT !.w = w2, !.m.initialized = TRUE,
                      !.app.initializedModules =
                          <<"scheduler", "metronome", "uiController", "keyboardController",
                            "trainingUIController">>]

(* initialize(options) *)
Initialize(i, useDependencyGraph, created, uiOk) ==
    IF i.app.isInitializing
    THEN [i EXCEPT !.ret = "false"]
    ELSE IF i.app.isInitialized
    THEN [i EXCEPT !.ret = "true"]
    ELSE LET i1 == IF useDependencyGraph
                   THEN InitializeWithDependencyGraph(
                            [i EXCEPT !.app = RegisterCoreModules(@, 1)], created, uiOk)
                   ELSE LegacyInitialize(i, created)
         IN IF i1.ret = "throw"
            THEN [i1 EXCEPT !.app.isInitializing = FALSE]
            ELSE [i1 EXCEPT !.app.isInitialized = TRUE, !.app.isInitializing = FALSE,
                            !.ret = "true"]

(* retryInitialize(options) *)
RetryInitialize(i, useDependencyGraph, created, uiOk) ==
    IF i.app.isInitializing
    THEN [i EXCEPT !.ret = "false"]
    ELSE LET i1 == [i EXCEPT !.app.isInitializing = TRUE,
                             !.app.isInitialized = FALSE,
                             !.app.initializedModules = <<>>,
                             !.app.initialized = {},
                             !.w = Reset(@)]
             i2 == Initialize(i1, useDependencyGraph, created, uiOk)
         IN [i2 EXCEPT !.app.isInitializing = FALSE]

CommitInit(i) ==
    /\ appInitializer' = i.app
    /\ initializationOrder' = i.order
    /\ metronomeInstance' = i.m
    /\ Commit(i.w, FALSE)
    /\ UNCHANGED notInitVars

(* AppInitializer.registerModule(moduleId, module, dependencies) called by  *)
(* the application for one of its own modules                              *)
RegisterModuleAct ==
    /\ pc = "idle"
    /\ \E moduleId \in PluginModules, dependencies \in DependencyLists :
          /\ CommitInit([InitWorld EXCEPT !.app = RegisterModule(@, moduleId, dependencies)])
          /\ lastCall' = [op |-> "registerModule", arg |-> moduleId, ret |-> "undefined"]

AppInitializeAct ==
    /\ pc = "idle"
    /\ \E useDependencyGraph \in BOOLEAN, created \in {"running", "fail"}, uiOk \in BOOLEAN :
          LET i == Initialize([InitWorld EXCEPT !.order = NoOrder], useDependencyGraph, created, uiOk)
          IN /\ CommitInit(i)
             /\ lastCall' = [op |-> "initialize",
                             arg |-> [useDependencyGraph |-> useDependencyGraph,
                                      stepsOk |-> (created # "fail" /\ uiOk)],
                             ret |-> i.ret]

RetryInitializeAct ==
    /\ pc = "idle"
    /\ \E useDependencyGraph \in BOOLEAN, created \in {"running", "fail"}, uiOk \in BOOLEAN :
          LET i == RetryInitialize([InitWorld EXCEPT !.order = NoOrder], useDependencyGraph, created, uiOk)
          IN /\ CommitInit(i)
             /\ lastCall' = [op |-> "retryInitialize",
                             arg |-> [useDependencyGraph |-> useDependencyGraph,
                                      stepsOk |-> (created # "fail" /\ uiOk)],
                             ret |-> i.ret]

----------------------------------------------------------------------------
(* The configuration of config.js *)

(* keyPath.includes(fragment) for the key paths of ConfigPaths and the     *)
(* fragments validateConfigValue looks for; includes is case-sensitive     *)
(* ('defaultVolume' does not include 'volume')                             *)
Includes(keyPath, fragment) ==
    \E i \in 1..Len(keyPath) :
        \/ keyPath[i] = "defaultBPM" /\ fragment = "BPM"
        \/ keyPath[i] = "maxBPM" /\ fragment \in {"BPM", "maxBPM"}
        \/ keyPath[i] = "minBPM" /\ fragment \in {"BPM", "minBPM"}

IsNumber(value) == value # StringValue

(* validateConfigValue(keyPath, value) *)
ValidateConfigValue(keyPath, value) ==
    IF Includes(keyPath, "BPM")
    THEN IF ~IsNumber(value) \/ value = NaN
         THEN FALSE
         ELSE IF Includes(keyPath, "minBPM") \/ Includes(keyPath, "maxBPM")
              THEN value >= 1 /\ value <= 500
              ELSE TRUE
    ELSE IF Includes(keyPath, "volume")
    THEN IsNumber(value) /\ JsGreater(value, -1) /\ JsLess(value, 101)
    ELSE IF Includes(keyPath, "beatNumerator")
    THEN IsNumber(value) /\ value # NaN /\ value >= 1 /\ value <= 32
    ELSE IF Includes(keyPath, "beatDenominator")
    THEN IsNumber(value) /\ value # NaN /\ value > 0
    ELSE TRUE

(* obj[key] is an object *)
IsObject(obj, key) == key \in DOMAIN obj /\ key = "training"

(* obj[key] = value, creating the key if obj does not have it *)
SetKey(obj, key, value) ==
    [k \in DOMAIN obj \cup {key} |-> IF k = key THEN value ELSE obj[k]]

(* updateConfig(keyPath, value), for key paths of one or two keys *)
UpdateConfig(cfg, keyPath, value) ==
    IF keyPath = <<>> \/ ~ValidateConfigValue(keyPath, value)
    THEN [config |-> cfg, ret |-> "false"]
    ELSE IF Len(keyPath) = 1
    THEN [config |-> SetKey(cfg, keyPath[1], value), ret |-> "true"]
    ELSE IF ~IsObject(cfg, keyPath[1])
    THEN [config |-> cfg, ret |-> "false"]
    ELSE [config |-> SetKey(cfg, keyPath[1], SetKey(cfg[keyPath[1]], keyPath[2], value)),
          ret |-> "true"]

UpdateConfigAct ==
    \E keyPath \in ConfigPaths, value \in ConfigValues :
        LET r == UpdateConfig(config, keyPath, value)
        IN /\ config' = r.config
           /\ lastCall' = [op |-> "updateConfig", arg |-> [keyPath |-> keyPath, value |-> value],
                           ret |-> r.ret]
           /\ UNCHANGED notConfigVars

----------------------------------------------------------------------------
(* The state listeners of state.js *)

(* a listener returns, throws, or calls the unsubscribe function of the    *)
(* listener target (its own or another one's) and returns                  *)
ListenerBehaviours ==
    {Returns, [kind |-> "throws", target |-> Null]}
        \cup {[kind |-> "unsubscribes", target |-> t] : t \in ListenerIds}

(* indexOf: the first index of l in the array ls, 0 if there is none *)
IndexOf(ls, l) ==
    IF \E i \in 1..Len(ls) : ls[i] = l
    THEN CHOOSE i \in 1..Len(ls) : ls[i] = l /\ \A j \in 1..(i - 1) : ls[j] # l
    ELSE 0

(* the unsubscribe function returned for listener l: splice(index, 1) *)
Unsubscribe(ls, l) ==
    LET index == IndexOf(ls, l)
    IN IF index > 0
       THEN [i \in 1..(Len(ls) - 1) |-> IF i < index THEN ls[i] ELSE ls[i + 1]]
       ELSE ls

(* listeners.forEach(...) from position index on: length is the array's    *)
(* length when forEach began; an index the array no longer has is skipped. *)
(* A call that throws is caught and the iteration goes on.                 *)
RECURSIVE NotifyFrom(_, _, _, _, _, _, _)
NotifyFrom(ls, behaviour, index, length, prevState, newState, calls) ==
    IF index > length \/ index > Len(ls)
    THEN [listeners |-> ls, calls |-> calls]
    ELSE LET listener == ls[index]
             after == IF behaviour[listener].kind = "unsubscribes"
                      THEN Unsubscribe(ls, behaviour[listener].target)
                      ELSE ls
         IN NotifyFrom(after, behaviour, index + 1, length, prevState, newState,
                       Append(calls, [listener |-> listener, prev |-> prevState, new |-> newState]))

(* notifyListeners(prevState, newState) *)
NotifyListeners(ls, behaviour, prevState, newState) ==
    NotifyFrom(ls, behaviour, 1, Len(ls), prevState, newState, <<>>)

(* subscribeToState(listener): a function not subscribed at the moment *)
SubscribeToStateAct ==
    \E l \in ListenerIds, b \in ListenerBehaviours :
        /\ IndexOf(listeners, l) = 0
        /\ listeners' = Append(listeners, l)
        /\ listenerBehaviour' = [listenerBehaviour EXCEPT ![l] = b]
        /\ lastCall' = [op |-> "subscribeToState", arg |-> l, ret |-> "unsubscribe"]
        /\ UNCHANGED <<state, listenerCalls, notListenerVars>>

(* the unsubscribe function of listener l, called outside a notification *)
UnsubscribeAct ==
    \E l \in ListenerIds :
        /\ listeners' = Unsubscribe(listeners, l)
        /\ listenerBehaviour' = [listenerBehaviour EXCEPT ![l] = Returns]
        /\ lastCall' = [op |-> "unsubscribe", arg |-> l, ret |-> "undefined"]
        /\ UNCHANGED <<state, listenerCalls, notListenerVars>>

(* updateState(newState) of state.js with newState = {bpm: b}, or with     *)
(* null, which throws before anything is merged                            *)
UpdateStateAct ==
    \E b \in UpdateInputs \cup {Null} :
        LET newState == [state EXCEPT !.bpm = b]
            n == NotifyListeners(listeners, listenerBehaviour, state, newState)
        IN /\ lastCall' = [op |-> "updateState", arg |-> b, ret |-> "undefined"]
           /\ IF b = Null
              THEN UNCHANGED <<state, listeners, listenerBehaviour>> /\ listenerCalls' = <<>>
              ELSE /\ state' = newState
                   /\ listeners' = n.listeners
                   /\ listenerBehaviour' =
                          [l \in ListenerIds |->
                              IF IndexOf(n.listeners, l) = 0 THEN Returns ELSE listenerBehaviour[l]]
                   /\ listenerCalls' = n.calls
           /\ UNCHANGED notListenerVars

(* The assembled metronome: the application drives the scheduler through   *)
(* initMetronome, startMetronome, stopMetronome, setBPM and                *)
(* setTimeSignature, and the scheduler's callback is scheduleBeat.         *)
Next ==
    \/ InitMetronomeAct
    \/ StartMetronomeAct
    \/ StopMetronomeAct
    \/ SetBPMAct
    \/ SetTimeSignatureAct
    \/ TickAct
    \/ LoopIterationAct
    \/ LoopExitAct
    \/ AdvanceAct
    \/ ContextSuspendAct
    \/ ContextResumeAct
    \/ ContextCloseAct
    \/ OnStateChangeAct

Spec == Init /\ [][Next]_vars

(* The scheduler on its own: a caller uses scheduler.init, scheduler.start *)
(* with a callback of its own (which may return, throw or stop the         *)
(* scheduler) and scheduler.stop; the tempo in the published state may     *)
(* change between ticks.                                                   *)
NextScheduler ==
    \/ SchedulerInitAct
    \/ SchedulerStartAct
    \/ SchedulerStopAct
    \/ SetBPMAct
    \/ TickAct
    \/ LoopIterationAct
    \/ LoopExitAct
    \/ RecoveryAct
    \/ AdvanceAct
    \/ ContextSuspendAct
    \/ ContextResumeAct
    \/ ContextCloseAct
    \/ OnStateChangeAct

SpecScheduler == Init /\ [][NextScheduler]_vars

(* The tempo API on its own: the metronome is initialised, started and     *)
(* stopped, and the tempo is set through either of the two setters with    *)
(* valid, out-of-range and non-finite values.                              *)
NextTempo ==
    \/ InitMetronomeAct
    \/ StartMetronomeAct
    \/ StopMetronomeAct
    \/ SetBPMCallAct
    \/ MetronomeSetBPMCallAct

SpecTempo == Init /\ [][NextTempo]_vars

(* The Metronome class of metronome.js driving the scheduler: its start()  *)
(* hands the scheduler a callback that calls _playBeat.                    *)
NextClass ==
    \/ MetronomeInitializeAct
    \/ MetronomeStartAct
    \/ MetronomeStopAct
    \/ MetronomeSetBPMAct
    \/ TickAct
    \/ LoopIterationAct
    \/ LoopExitAct
    \/ AdvanceAct

SpecClass == Init /\ [][NextClass]_vars

----------------------------------------------------------------------------
(* Training mode: the TrainingSessionManager of trainingCore.js on top of  *)
(* the functional metronome.                                               *)

TOGGLE_LOCK_DURATION == 300

(* the segment lists given to startSession; the empty list and a tempo     *)
(* below 40 are rejected by its validation                                 *)
SegmentLists ==
    {<<>>,
     <<[bpm |-> 30, beats |-> 2, repeats |-> 1]>>,
     <<[bpm |-> 120, beats |-> 2, repeats |-> 2]>>,
     <<[bpm |-> 100, beats |-> 1, repeats |-> 2], [bpm |-> 120, beats |-> 2, repeats |-> 1]>>}

(* the parameter validation at the head of startSession *)
ValidSegments(segments) ==
    /\ Len(segments) > 0
    /\ \A i \in 1..Len(segments) :
          /\ segments[i].bpm >= 40 /\ segments[i].bpm <= 208
          /\ segments[i].beats >= 1 /\ segments[i].beats <= 16
          /\ segments[i].repeats >= 1 /\ segments[i].repeats <= 100

(* the manager's fields after the constructor and after stopSession;       *)
(* listening: _handleBeat is registered for metronome:beat                 *)
NoSession ==
    [sessionId |-> Null, segments |-> <<>>, currentSegmentIndex |-> 0, currentRepeat |-> 1,
     remainingBeats |-> 0, isRunning |-> FALSE, listening |-> FALSE]

NoEffect == [kind |-> "none", a |-> 0, b |-> 0]

(* what the training operations act on: the metronome's world, the         *)
(* manager, the toggle lock and the session's history                      *)
TrainingWorld ==
    [w |-> World, t |-> trainingSessionManager, lock |-> toggleLock, g |-> trainingHist,
     enter |-> FALSE]

(* toggleMetronome() *)
ToggleMetronome(c) ==
    IF c.lock
    THEN [c EXCEPT !.w.ret = "false"]
    ELSE LET w1 == [c.w EXCEPT !.tm = @ \cup {[id |-> NewTimerId(c.w), kind |-> "toggleLock",
                                                due |-> WallNow + TOGGLE_LOCK_DURATION]}]
             r == IF w1.st.isRunning
                  THEN [w |-> StopMetronome(w1), enter |-> FALSE]
                  ELSE StartMetronome(w1)
         IN [c EXCEPT !.w = r.w, !.lock = TRUE, !.enter = r.enter]

(* _configureMetronome(segment) *)
ConfigureMetronome(w, segment) == SetTimeSignature(SetBPM(w, segment.bpm), segment.beats, 4)

(* stopSession(isComplete) *)
StopSession(c, isComplete) ==
    IF c.t.sessionId = Null
    THEN [c EXCEPT !.w.ret = "false"]
    ELSE [c EXCEPT !.w = [StopMetronome(c.w) EXCEPT !.ret = "true"], !.t = NoSession]

(* startSession(segments) *)
StartSession(c, segments) ==
    IF ~ValidSegments(segments)
    THEN [c EXCEPT !.w.ret = "false"]
    ELSE LET c1 == StopSession(c, FALSE)
             firstSegment == segments[1]
             c2 == [c1 EXCEPT !.t.sessionId = 1,
                              !.t.segments = segments,
                              !.t.currentSegmentIndex = 0,
                              !.t.currentRepeat = 1,
                              !.t.remainingBeats = firstSegment.beats,
                              !.g = [segments |-> segments, played |-> <<>>, complete |-> 0,
                                     runningAtComplete |-> FALSE],
                              !.w = ConfigureMetronome(c1.w, firstSegment)]
             c3 == ToggleMetronome(c2)
         IN [c3 EXCEPT !.t.isRunning = TRUE, !.t.listening = TRUE, !.w.ret = "true"]

(* pauseSession() *)
PauseSession(c) ==
    IF ~c.t.isRunning \/ c.t.sessionId = Null
    THEN [c EXCEPT !.w.ret = "false"]
    ELSE [ToggleMetronome(c) EXCEPT !.t.isRunning = FALSE, !.w.ret = "true"]

(* resumeSession() *)
ResumeSession(c) ==
    IF c.t.isRunning \/ c.t.sessionId = Null
    THEN [c EXCEPT !.w.ret = "false"]
    ELSE [ToggleMetronome(c) EXCEPT !.t.isRunning = TRUE, !.w.ret = "true"]

(* _handleSegmentCompletion() that repeats a segment while               *)
(* currentRepeat <= repeats, one repetition too many                       *)
HandleSegmentCompletionRepeatsOnceMore(t) ==
    LET currentSegment == t.segments[t.currentSegmentIndex + 1]
    IN IF t.currentRepeat <= currentSegment.repeats
       THEN [t |-> [t EXCEPT !.currentRepeat = @ + 1, !.remainingBeats = currentSegment.beats],
             effect |-> NoEffect, handled |-> TRUE]
       ELSE IF t.currentSegmentIndex < Len(t.segments) - 1
            THEN LET nextSegment == t.segments[t.currentSegmentIndex + 2]
                 IN [t |-> [t EXCEPT !.currentSegmentIndex = @ + 1,
                                     !.currentRepeat = 1,
                                     !.remainingBeats = nextSegment.beats],
                     effect |-> [kind |-> "configure", a |-> nextSegment.bpm, b |-> nextSegment.beats],
                     handled |-> TRUE]
            ELSE [t |-> NoSession, effect |-> [kind |-> "stopMetronome", a |-> 0, b |-> 0],
                  handled |-> TRUE]

(* _handleSegmentCompletion(): the manager afterwards and what it does to  *)
(* the metronome: nothing, _configureMetronome(nextSegment), or            *)
(* _completeSession(), whose stopSession(true) calls stopMetronome()       *)
HandleSegmentCompletion(t) ==
    LET currentSegment == t.segments[t.currentSegmentIndex + 1]
    IN IF t.currentRepeat < currentSegment.repeats
       THEN [t |-> [t EXCEPT !.currentRepeat = @ + 1, !.remainingBeats = currentSegment.beats],
             effect |-> NoEffect, handled |-> TRUE]
       ELSE IF t.currentSegmentIndex < Len(t.segments) - 1
            THEN LET nextSegment == t.segments[t.currentSegmentIndex + 2]
                 IN [t |-> [t EXCEPT !.currentSegmentIndex = @ + 1,
                                     !.currentRepeat = 1,
                                     !.remainingBeats = nextSegment.beats],
                     effect |-> [kind |-> "configure", a |-> nextSegment.bpm, b |-> nextSegment.beats],
                     handled |-> TRUE]
            ELSE [t |-> NoSession, effect |-> [kind |-> "stopMetronome", a |-> 0, b |-> 0],
                  handled |-> TRUE]

(* _handleBeat(event) *)
HandleBeat(t) ==
    IF ~t.isRunning \/ t.sessionId = Null
    THEN [t |-> t, effect |-> NoEffect, handled |-> FALSE]
    ELSE LET t1 == [t EXCEPT !.remainingBeats = Max(0, @ - 1)]
         IN IF t1.remainingBeats <= 0
            THEN HandleSegmentCompletion(t1)
            ELSE [t |-> t1, effect |-> NoEffect, handled |-> TRUE]

CommitTraining(c, op) ==
    /\ trainingSessionManager' = c.t
    /\ toggleLock' = c.lock
    /\ trainingHist' = c.g
    /\ Commit(c.w, c.enter)
    /\ lastCall' = [op |-> op, arg |-> 0, ret |-> c.w.ret]
    /\ UNCHANGED notTrainingVars

StartSessionAct ==
    /\ pc = "idle"
    /\ \E segments \in SegmentLists : CommitTraining(StartSession(TrainingWorld, segments), "startSession")

PauseSessionAct ==
    /\ pc = "idle"
    /\ CommitTraining(PauseSession(TrainingWorld), "pauseSession")

ResumeSessionAct ==
    /\ pc = "idle"
    /\ CommitTraining(ResumeSession(TrainingWorld), "resumeSession")

StopSessionAct ==
    /\ pc = "idle"
    /\ CommitTraining(StopSession(TrainingWorld, FALSE), "stopSession")

(* toggleMetronome() called by the user interface *)
ToggleMetronomeAct ==
    /\ pc = "idle"
    /\ CommitTraining(ToggleMetronome(TrainingWorld), "toggleMetronome")

(* the timer set by toggleMetronome fires: toggleLock = false *)
ToggleLockExpireAct ==
    /\ pc = "idle"
    /\ \E t \in timers :
          /\ t.kind = "toggleLock"
          /\ WallNow >= t.due
          /\ timers' = timers \ {t}
    /\ toggleLock' = FALSE
    /\ lastCall' = NoCall
    /\ UNCHANGED <<scheduler, state, pc, loopLocals, hist, trainingSessionManager, trainingHist>>
    /\ UNCHANGED notTrainingVars

(* One iteration of the while loop while training mode listens: the        *)
(* metronome:beat event that scheduleBeat dispatches runs _handleBeat.     *)
TrainingLoopIterationAct ==
    /\ pc = "loop"
    /\ scheduler.nextBeatTime < loopLocals.currentTime + scheduleAheadTime
    /\ loopLocals.scheduleCount < maxSchedulesPerIteration
    /\ LET delivered == scheduler.schedulerCallback = "scheduleBeat" /\ trainingSessionManager.listening
           h == IF delivered THEN HandleBeat(trainingSessionManager)
                ELSE [t |-> trainingSessionManager, effect |-> NoEffect, handled |-> FALSE]
           r == LoopBody(World, h.effect, loopLocals.interval, loopLocals.beatNumerator)
           completed == h.effect.kind = "stopMetronome"
       IN /\ scheduler' = r.w.s
          /\ state' = r.w.st
          /\ timers' = r.w.tm
          /\ hist' = r.w.g
          /\ pc' = IF r.done THEN "idle" ELSE "loop"
          /\ loopLocals' = IF r.done THEN NoLocals
                           ELSE [loopLocals EXCEPT !.scheduleCount = @ + 1]
          /\ trainingSessionManager' = h.t
          /\ trainingHist' =
                IF h.handled
                THEN [trainingHist EXCEPT
                         !.played = Append(@, [segment |-> trainingSessionManager.currentSegmentIndex,
                                               repeat |-> trainingSessionManager.currentRepeat]),
                         !.complete = IF completed THEN @ + 1 ELSE @,
                         !.runningAtComplete = IF completed THEN r.w.st.isRunning \/ r.w.s.isRunning
                                               ELSE @]
                ELSE trainingHist
    /\ toggleLock' = toggleLock
    /\ lastCall' = NoCall
    /\ UNCHANGED notTrainingVars

NextTraining ==
    \/ InitMetronomeAct
    \/ StartSessionAct
    \/ PauseSessionAct
    \/ ResumeSessionAct
    \/ StopSessionAct
    \/ ToggleMetronomeAct
    \/ ToggleLockExpireAct
    \/ TickAct
    \/ TrainingLoopIterationAct
    \/ LoopExitAct
    \/ AdvanceAct

SpecTraining == Init /\ [][NextTraining]_vars

----------------------------------------------------------------------------
(* The event lock manager (EventLockManager) *)

LockKeys == {"toggle", "bpm"}

LockDurations == {100, 300}

LockTimeSteps == {100, 200}

LockTimerIds == 1..3

(* tryLock(key, duration) *)
TryLockAct ==
    \E key \in LockKeys, duration \in LockDurations :
        IF key \in locks
        THEN /\ lastCall' = [op |-> "tryLock", arg |-> key, ret |-> "false"]
             /\ UNCHANGED <<locks, lockTimers, lockHist>>
             /\ UNCHANGED notLockVars
        ELSE /\ \E id \in LockTimerIds :
                   /\ \A t \in lockTimers : t.id # id
                   /\ lockTimers' = lockTimers \cup {[id |-> id, key |-> key, due |-> duration]}
             /\ locks' = locks \cup {key}
             /\ lockHist' = [lockHist EXCEPT ![key] = duration]
             /\ lastCall' = [op |-> "tryLock", arg |-> key, ret |-> "true"]
             /\ UNCHANGED notLockVars

(* unlock(key) *)
UnlockAct ==
    \E key \in LockKeys :
        /\ locks' = locks \ {key}
        /\ lockHist' = [lockHist EXCEPT ![key] = 0]
        /\ lastCall' = [op |-> "unlock", arg |-> key, ret |-> "undefined"]
        /\ UNCHANGED lockTimers
        /\ UNCHANGED notLockVars

(* the timer set by tryLock fires: the key is deleted from the map *)
LockExpireAct ==
    \E t \in lockTimers :
        /\ t.due = 0
        /\ lockTimers' = lockTimers \ {t}
        /\ locks' = locks \ {t.key}
        /\ lastCall' = [op |-> "expire", arg |-> t.key, ret |-> "undefined"]
        /\ UNCHANGED lockHist
        /\ UNCHANGED notLockVars

(* d ms pass; a timer that is due fires before more time passes *)
AdvanceLocksAct ==
    \E d \in LockTimeSteps :
        /\ \A t \in lockTimers : t.due >= d
        /\ lockTimers # {}
        /\ lockTimers' = {[t EXCEPT !.due = @ - d] : t \in lockTimers}
        /\ lockHist' = [k \in LockKeys |-> Max(0, lockHist[k] - d)]
        /\ lastCall' = NoCall
        /\ UNCHANGED locks
        /\ UNCHANGED notLockVars

NextLocks == TryLockAct \/ UnlockAct \/ LockExpireAct \/ AdvanceLocksAct

SpecLocks == Init /\ [][NextLocks]_vars

----------------------------------------------------------------------------
(* The audio error boundary (AudioErrorBoundary) *)

(* the automatic attempts the model follows after one reported error *)
MaxAttempts == 3

MaxPendingRecoveries == 2

(* what the boundary's operations act on: the boundary b, the attempts     *)
(* started by catchError and not yet run on, the initialiser's world i     *)
BoundaryWorld ==
    [b |-> audioErrorBoundary, pending |-> pendingRecovery, i |-> InitWorld, ret |-> "none"]

(* resetError() *)
ResetError(c) == [c EXCEPT !.b.hasError = FALSE]

(* catchError(error, options); autoRecover is options.autoRecover *)
CatchError(c, autoRecover) ==
    LET c1 == [c EXCEPT !.b.hasError = TRUE]
    IN IF autoRecover \/ c.b.autoRecovery
       THEN [c1 EXCEPT !.pending = @ + 1, !.ret = "true"]
       ELSE [c1 EXCEPT !.ret = "true"]

(* attemptRecovery(); created and uiOk are what the re-initialisation      *)
(* would meet.  Without an initialiser the method throws into its own      *)
(* catch block; with one it resets the error and awaits                    *)
(* retryInitialize().                                                      *)
BoundaryAttemptRecovery(c, created, uiOk) ==
    IF ~c.b.hasInitializer
    THEN [CatchError(c, FALSE) EXCEPT !.ret = "false"]
    ELSE LET c1 == ResetError(c)
             i1 == RetryInitialize(c1.i, FALSE, created, uiOk)
             c2 == [c1 EXCEPT !.i = i1]
         IN IF i1.ret = "throw"
            THEN [CatchError(c2, FALSE) EXCEPT !.ret = "false"]
            ELSE IF i1.ret = "true"
                 THEN [ResetError(c2) EXCEPT !.ret = "true"]
                 ELSE [c2 EXCEPT !.ret = "false"]

CommitBoundary(c, op, attempts) ==
    /\ audioErrorBoundary' = c.b
    /\ pendingRecovery' = c.pending
    /\ boundaryHist' = [attempts |-> attempts]
    /\ appInitializer' = c.i.app
    /\ initializationOrder' = c.i.order
    /\ metronomeInstance' = c.i.m
    /\ Commit(c.i.w, FALSE)
    /\ lastCall' = [op |-> op, arg |-> 0, ret |-> c.ret]
    /\ UNCHANGED notBoundaryVars

(* AudioErrorBoundary.initialize(options, dependencies) *)
BoundaryInitializeAct ==
    /\ pc = "idle"
    /\ \E autoRecovery \in BOOLEAN, hasInitializer \in BOOLEAN :
          CommitBoundary([BoundaryWorld EXCEPT !.b.autoRecovery = autoRecovery,
                                               !.b.hasInitializer = hasInitializer,
                                               !.ret = "undefined"],
                         "boundary.initialize", boundaryHist.attempts)

(* a module reports an audio error: catchError(error, options) *)
CatchErrorAct ==
    /\ pc = "idle"
    /\ pendingRecovery < MaxPendingRecoveries
    /\ \E autoRecover \in BOOLEAN :
          CommitBoundary(CatchError(BoundaryWorld, autoRecover), "catchError", 0)

(* the retry button: attemptRecovery() *)
AttemptRecoveryAct ==
    /\ pc = "idle"
    /\ pendingRecovery < MaxPendingRecoveries
    /\ \E created \in {"running", "fail"}, uiOk \in BOOLEAN :
          CommitBoundary(BoundaryAttemptRecovery(BoundaryWorld, created, uiOk),
                         "attemptRecovery", boundaryHist.attempts)

(* an attemptRecovery() call made by catchError runs on *)
PendingRecoveryAct ==
    /\ pc = "idle"
    /\ pendingRecovery > 0
    /\ boundaryHist.attempts < MaxAttempts
    /\ \E created \in {"running", "fail"}, uiOk \in BOOLEAN :
          CommitBoundary(BoundaryAttemptRecovery([BoundaryWorld EXCEPT !.pending = @ - 1],
                                                 created, uiOk),
                         "attemptRecovery", boundaryHist.attempts + 1)

(* AppInitializer.initialize(options) with the boundary at hand: success  *)
(* resets the boundary's error, a failure to create the audio context is   *)
(* reported to it                                                          *)
InitializeWithBoundaryAct ==
    /\ pc = "idle"
    /\ pendingRecovery < MaxPendingRecoveries
    /\ \E useDependencyGraph \in BOOLEAN, created \in {"running", "fail"}, uiOk \in BOOLEAN :
          LET i == Initialize([InitWorld EXCEPT !.order = NoOrder], useDependencyGraph, created, uiOk)
              c == [BoundaryWorld EXCEPT !.i = i]
          IN IF i.ret = "true"
             THEN CommitBoundary([ResetError(c) EXCEPT !.ret = "true"], "initialize",
                                 boundaryHist.attempts)
             ELSE IF i.ret = "throw" /\ created = "fail"
                  THEN CommitBoundary([CatchError(c, FALSE) EXCEPT !.ret = "throw"], "initialize", 0)
                  ELSE CommitBoundary([c EXCEPT !.ret = i.ret], "initialize", boundaryHist.attempts)

NextBoundary ==
    \/ BoundaryInitializeAct
    \/ CatchErrorAct
    \/ AttemptRecoveryAct
    \/ PendingRecoveryAct
    \/ InitializeWithBoundaryAct

SpecBoundary == Init /\ [][NextBoundary]_vars

(* The scheduler with a callback that stops and starts the scheduler from  *)
(* inside a dispatch.                                                      *)
NextReentrant ==
    \/ SchedulerInitAct
    \/ SchedulerStartReentrantAct
    \/ SchedulerStopAct
    \/ SetBPMAct
    \/ TickAct
    \/ LoopIterationAct
    \/ LoopExitAct
    \/ AdvanceAct

SpecReentrant == Init /\ [][NextReentrant]_vars

(* The Metronome class with start() suspended at its awaits: stop() and    *)
(* toggle() run in between.                                                *)
NextClassAsync ==
    \/ MetronomeStartBeginAct
    \/ MetronomeStartAfterInitializeAct
    \/ MetronomeStartAfterResumeAct
    \/ MetronomeStopAct
    \/ MetronomeToggleAct
    \/ TickAct
    \/ LoopIterationAct
    \/ LoopExitAct
    \/ AdvanceAct

SpecClassAsync == Init /\ [][NextClassAsync]_vars

(* The registry of active audio nodes: sounds are played, sources end,     *)
(* per-node timeouts and the periodic sweep run, the audio resources are   *)
(* cleaned up and initialised again.                                       *)
NextNodes ==
    \/ InitSoundBuffersAct
    \/ PlaySoundAct
    \/ SourceEndedAct
    \/ NodeTimeoutAct
    \/ SweepAct
    \/ CleanupAudioResourcesAct
    \/ AdvanceNodesAct

(* the host lets time pass and runs every timer that is due *)
SpecNodes ==
    /\ Init
    /\ [][NextNodes]_vars
    /\ WF_vars(AdvanceNodesAct)
    /\ WF_vars(SweepAct)
    /\ \A id \in NodeIds : WF_vars(NodeTimeoutOf(id))

(* The state module: listeners subscribe and unsubscribe, the state is     *)
(* updated.                                                                *)
NextListeners == SubscribeToStateAct \/ UnsubscribeAct \/ UpdateStateAct

SpecListeners == Init /\ [][NextListeners]_vars

(* The configuration module: updateConfig is called again and again. *)
NextConfig == UpdateConfigAct

SpecConfig == Init /\ [][NextConfig]_vars

(* The application initialiser: the application registers modules of its   *)
(* own, initialises and retries the initialisation.                        *)
NextInit == RegisterModuleAct \/ AppInitializeAct \/ RetryInitializeAct

SpecInit == Init /\ [][NextInit]_vars

TypeOK ==
    /\ pc \in {"idle", "loop"}
    /\ scheduler.errorCount \in 0..maxAllowedErrors
    /\ scheduler.isRunning => scheduler.nextBeatTime >= AudioNow - MaxLag
    /\ \A t \in timers : t.due >= WallNow

----------------------------------------------------------------------------
(* Properties *)

(* The while loop of schedulerLoop is about to hand the beat              *)
(* (nextBeatTime, currentBeat) to the callback.                            *)
Dispatching ==
    /\ pc = "loop"
    /\ scheduler.nextBeatTime < loopLocals.currentTime + scheduleAheadTime
    /\ loopLocals.scheduleCount < maxSchedulesPerIteration
    /\ scheduler.schedulerCallback # "null"

TickTimerPending == \E t \in timers : t.kind = "tick"

(* C1: the timestamps handed to the beat callback since the last start()  *)
(* are strictly increasing: the beat about to be dispatched has a          *)
(* timestamp greater than that of the beat dispatched before it, also      *)
(* after a tempo or time-signature change made while running.              *)
C1_TimestampsStrictlyIncrease ==
    (Dispatching /\ hist.dispatched) => scheduler.nextBeatTime > hist.lastTime

(* C2: every beat number handed to the callback lies in 1..numerator, the  *)
(* numerator being the one the state holds at the moment of dispatch.      *)
C2_BeatNumberWithinBar ==
    Dispatching => scheduler.currentBeat \in 1..state.beatNumerator

(* C3: the timestamp of a beat handed to the callback is not less than the *)
(* audio clock's current time at that moment.                              *)
C3_TimestampNotInPast ==
    Dispatching => scheduler.nextBeatTime >= AudioNow

(* C4: with a callback that has thrown on every call, once                 *)
(* maxAllowedErrors dispatches in a row have failed the scheduler is       *)
(* stopped: isRunning is false, no tick timer is pending and the loop has  *)
(* been left.                                                              *)
C4_StoppedAfterThreshold ==
    (~hist.callbackReturned /\ hist.failStreak >= maxAllowedErrors)
        => (~scheduler.isRunning /\ ~TickTimerPending /\ pc = "idle")

(* C5: a dispatch whose callback throws below the error threshold (the     *)
(* step raises errorCount by one and the scheduler keeps running) moves    *)
(* nextBeatTime on by exactly one beat interval and the beat counter by    *)
(* exactly one step of the cycle.                                          *)
C5_FailedDispatchAdvancesOnce ==
    [][(pc = "loop" /\ scheduler'.errorCount = scheduler.errorCount + 1)
          => /\ scheduler'.nextBeatTime = scheduler.nextBeatTime + (60000 \div state.bpm)
             /\ scheduler'.currentBeat = (scheduler.currentBeat % state.beatNumerator) + 1]_vars

(* a failed dispatch below the threshold has happened in the current tick *)
C5_Witness ==
    /\ pc = "loop"
    /\ scheduler.isRunning
    /\ scheduler.errorCount = maxAllowedErrors - 1
    /\ hist.failStreak = maxAllowedErrors - 1

(* C6: while the scheduler is stopped (stop() has been called and start()  *)
(* has not been called since) no beat is handed to the callback and no     *)
(* tick timer is pending, whether stop() was called between two ticks or   *)
(* from inside the callback.                                               *)
C6_NothingAfterStop ==
    ~scheduler.isRunning => (~Dispatching /\ ~TickTimerPending)

(* stop() was called from inside the callback and the while loop, whose    *)
(* condition still holds, goes on                                          *)
C6_Witness ==
    /\ pc = "loop"
    /\ ~scheduler.isRunning
    /\ scheduler.nextBeatTime < loopLocals.currentTime + scheduleAheadTime
    /\ loopLocals.scheduleCount < maxSchedulesPerIteration

(* C7: scheduler.start() called while the scheduler is running returns     *)
(* true and changes neither a field of the scheduler (nextBeatTime,        *)
(* currentBeat, errorCount, callback, timer handle) nor the set of pending *)
(* timers.                                                                 *)
C7_StartWhileRunningChangesNothing ==
    [][(scheduler.isRunning /\ lastCall'.op = "scheduler.start")
          => (lastCall'.ret = "true" /\ scheduler' = scheduler /\ timers' = timers)]_vars

(* start() has just been called on a scheduler that has dispatched beats   *)
(* since it was started and has a tick timer pending                       *)
C7_Witness ==
    /\ lastCall.op = "scheduler.start"
    /\ lastCall.ret = "true"
    /\ scheduler.isRunning
    /\ hist.dispatched
    /\ TickTimerPending

(* C8: scheduler.stop() called while the scheduler is stopped reports     *)
(* that nothing was stopped (it returns false, or at least no truthy       *)
(* value) and changes neither a field of the scheduler nor the set of      *)
(* pending timers: in particular it cancels no pending recovery.           *)
C8_StopWhenStoppedChangesNothing ==
    [][(~scheduler.isRunning /\ lastCall'.op = "scheduler.stop")
          => /\ lastCall'.ret \in {"false", "undefined"}
             /\ scheduler' = scheduler
             /\ timers' = timers]_vars

(* C9: when the beat handed to the callback is beat 1 after the last beat  *)
(* of a bar (the published currentBeat equals the numerator), the          *)
(* published currentBar grows by one.                                      *)
C9_BarGrowsOnWrap ==
    [][(/\ Dispatching
        /\ hist.dispatched
        /\ state.currentBeat = state.beatNumerator
        /\ scheduler.currentBeat = 1
        /\ state'.isRunning
        /\ state'.beatNumerator = state.beatNumerator)
          => state'.currentBar = state.currentBar + 1]_vars

(* C10: the first beat handed to the callback after a successful           *)
(* time-signature change made while the scheduler is running is beat 1.    *)
C10_BeatOneAfterSignatureChange ==
    (Dispatching /\ hist.sigChanged) => scheduler.currentBeat = 1

(* C11: with the numerator unchanged between two dispatches, the beat      *)
(* numbers handed to the callback after start() run 1, 2, ..., N, 1, 2,    *)
(* ...: the first beat after start() is beat 1 and every later beat is the *)
(* successor in the cycle of the beat dispatched before it, also when the  *)
(* tempo was changed between the two.                                      *)
C11_BeatNumbersCycle ==
    Dispatching =>
        IF hist.dispatched
        THEN ~hist.sigChanged => scheduler.currentBeat = (hist.lastBeat % state.beatNumerator) + 1
        ELSE scheduler.currentBeat = 1

(* a beat in the middle of a bar is about to be dispatched after the tempo *)
(* was changed (and the timeline re-based) since the previous beat         *)
C11_Witness ==
    /\ Dispatching
    /\ hist.dispatched
    /\ hist.realigned
    /\ ~hist.sigChanged
    /\ hist.lastBeat = 2
    /\ scheduler.currentBeat = 3

C13_AdvanceUsesCurrentTempo ==
    [][(Dispatching /\ scheduler'.isRunning)
          => scheduler'.nextBeatTime =
                (IF hist'.realigned THEN AudioNow + RealignDelay ELSE scheduler.nextBeatTime)
                + (60000 \div state'.bpm)]_vars

(* the run of schedulerLoop that starts now is throttled: the previous run *)
(* was less than minScheduleInterval ago                                   *)
Throttled ==
    /\ scheduler.lastUpdateTime # NeverUpdated
    /\ WallNow - scheduler.lastUpdateTime < minScheduleInterval

(* C14: a tick (a run of schedulerLoop by its timer that passes the        *)
(* throttle) of a running scheduler whose audio context is suspended       *)
(* dispatches no beat, leaves nextBeatTime and the beat counter unchanged  *)
(* and re-arms exactly one tick timer, after the fixed retry delay.        *)
C14_SuspendedTickDispatchesNothing ==
    [][(TickAct /\ scheduler.isRunning /\ scheduler.audioContext = "suspended" /\ ~Throttled)
          => /\ pc' = "idle"
             /\ hist'.dispatched = hist.dispatched
             /\ hist'.lastTime = hist.lastTime
             /\ hist'.lastBeat = hist.lastBeat
             /\ scheduler'.nextBeatTime = scheduler.nextBeatTime
             /\ scheduler'.currentBeat = scheduler.currentBeat
             /\ \E t \in timers' :
                   /\ t.kind = "tick"
                   /\ t.due = WallNow + SuspendedRetryDelay
                   /\ scheduler'.timerID = t.id
                   /\ \A u \in timers' : u.kind = "tick" => u = t]_vars

(* a tick has just found the context suspended while a beat was due: the   *)
(* beat is still undispatched and the retry timer is armed                 *)
C14_Witness ==
    /\ pc = "idle"
    /\ scheduler.isRunning
    /\ scheduler.audioContext = "suspended"
    /\ hist.dispatched
    /\ hist.afterSuspension
    /\ scheduler.nextBeatTime < AudioNow + scheduleAheadTime
    /\ \E t \in timers : t.kind = "tick" /\ t.due = WallNow + SuspendedRetryDelay

(* C15: in the first tick that runs the loop after ticks that found the    *)
(* context suspended, scheduling goes on from the nextBeatTime computed    *)
(* before the suspension (one interval after the last dispatched beat,     *)
(* unless the timeline was re-based meanwhile), and the beats of that tick *)
(* are no catch-up burst: a beat sounds (playSoundInternal starts it at    *)
(* its timestamp, or at once when the timestamp has passed) at least one   *)
(* beat interval after the beat dispatched before it in the tick.          *)
C15_NoBurstAfterSuspension ==
    (Dispatching /\ hist.afterSuspension /\ hist.dispatched /\ ~hist.realigned)
        => /\ scheduler.nextBeatTime = hist.lastTime + loopLocals.interval
           /\ loopLocals.scheduleCount > 0
                 => StartTime(scheduler.nextBeatTime) - StartTime(hist.lastTime)
                        >= loopLocals.interval

(* C16: a tick (a run of schedulerLoop that passes the throttle) that      *)
(* finds the audio context closed stops the scheduler without dispatching  *)
(* a beat; a beat is only ever dispatched by a running scheduler against a *)
(* running context, and a stopped scheduler only becomes running through   *)
(* a call of start(): so after the context was closed no beat is           *)
(* dispatched until it has been replaced and start() has been called.      *)
C16_ClosedContextStopsScheduler ==
    [][/\ Dispatching => (scheduler.isRunning /\ scheduler.audioContext = "running")
       /\ (TickAct /\ scheduler.isRunning /\ scheduler.audioContext = "closed" /\ ~Throttled)
             => (pc' = "idle" /\ ~scheduler'.isRunning /\ ~TickTimerPending'
                 /\ scheduler'.schedulerCallback = "null")
       /\ (~scheduler.isRunning /\ scheduler'.isRunning)
             => (SchedulerStartAct \/ StartMetronomeAct)]_vars

(* a tick has found the context closed and has stopped the scheduler       *)
C16_Witness ==
    /\ hist.stopCause = "closed"
    /\ ~scheduler.isRunning
    /\ scheduler.audioContext = "closed"
    /\ ~TickTimerPending
    /\ pc = "idle"

(* C17: errorCount never exceeds the number of dispatches that have failed *)
(* since the last dispatch that succeeded (or since start()), a successful *)
(* dispatch sets it to 0, and a scheduler that was stopped for errors has  *)
(* seen at least maxAllowedErrors failed dispatches with no successful     *)
(* dispatch between them.                                                  *)
C17_ErrorCountCountsConsecutiveFailures ==
    [][/\ scheduler.errorCount <= hist.failStreak
       /\ hist.stopCause = "errors" => hist.failStreak >= maxAllowedErrors
       /\ (Dispatching /\ scheduler.schedulerCallback # "null" /\ hist'.failStreak = 0)
             => scheduler'.errorCount = 0]_vars

(* the scheduler was stopped for errors after a dispatch had succeeded and *)
(* exactly maxAllowedErrors dispatches had failed in a row after it        *)
C17_Witness ==
    /\ hist.stopCause = "errors"
    /\ ~scheduler.isRunning
    /\ hist.callbackReturned
    /\ hist.failStreak = maxAllowedErrors

(* C18: in the assembled metronome, once the sound could not be emitted on *)
(* maxAllowedErrors beats in a row, the scheduler and the metronome are    *)
(* stopped.                                                                *)
C18_StopsWhenEveryBeatFails ==
    hist.soundFailures >= maxAllowedErrors
        => (~scheduler.isRunning /\ ~metronomeState.isRunning)

RecoveryTimers == {t \in timers : t.kind = "recovery"}

(* C19: the step in which the error threshold stops the scheduler leaves   *)
(* it stopped with no tick timer and exactly one recovery timer, due       *)
(* RecoveryDelay later; there is never more than one recovery timer; the   *)
(* step in which the recovery timer fires arms no timer and leaves the     *)
(* scheduler stopped or running as it was; and a stopped scheduler only    *)
(* becomes running through a call of start().                              *)
C19_RecoveryNeverRestarts ==
    [][/\ Cardinality(RecoveryTimers) <= 1
       /\ (hist.stopCause # "errors" /\ hist'.stopCause = "errors")
             => /\ ~scheduler'.isRunning
                /\ ~TickTimerPending'
                /\ pc' = "idle"
                /\ \E t \in timers' :
                      /\ t.kind = "recovery"
                      /\ t.due = WallNow + RecoveryDelay
                      /\ scheduler'.recoveryTimeout = t.id
                      /\ \A u \in timers' : u.kind = "recovery" => u = t
       /\ RecoveryAct
             => /\ scheduler'.isRunning = scheduler.isRunning
                /\ timers' \subseteq timers
                /\ \A t \in timers' : t.kind # "recovery"
                /\ scheduler'.recoveryTimeout = Null
                /\ pc' = "idle"
       /\ (~scheduler.isRunning /\ scheduler'.isRunning)
             => (SchedulerStartAct \/ StartMetronomeAct)]_vars

(* the scheduler was stopped by the error threshold, its recovery attempt  *)
(* has been made, and it is still stopped                                  *)
C19_Witness ==
    /\ hist.stopCause = "errors"
    /\ ~scheduler.isRunning
    /\ RecoveryTimers = {}
    /\ scheduler.recoveryTimeout = Null
    /\ ~TickTimerPending
    /\ pc = "idle"

(* C20: when the recovery timer fires while the audio context is closed,   *)
(* the scheduler holds a new context afterwards, one that is not closed.   *)
C20_RecoveryReplacesClosedContext ==
    [][(RecoveryAct /\ scheduler.audioContext = "closed")
          => scheduler'.audioContext \in {"running", "suspended"}]_vars

(* C21: a call that sets the tempo to NaN leaves bpm unchanged and returns *)
(* failure.                                                                *)
C21_NaNTempoRejected ==
    [][(lastCall'.op \in {"setBPM", "Metronome.setBPM"} /\ lastCall'.arg = NaN)
          => (state'.bpm = state.bpm /\ lastCall'.ret = "false")]_vars

(* C22: a call that sets the tempo to a finite value outside               *)
(* [MIN_BPM, MAX_BPM] leaves bpm at the nearer end of the range: a value   *)
(* above MAX_BPM (1000) gives MAX_BPM, a value below MIN_BPM gives MIN_BPM. *)
C22_OutOfRangeTempoClamped ==
    [][(lastCall'.op \in {"setBPM", "Metronome.setBPM"} /\ lastCall'.arg # NaN)
          => /\ lastCall'.arg > MAX_BPM => state'.bpm = MAX_BPM
             /\ lastCall'.arg < MIN_BPM => state'.bpm = MIN_BPM]_vars

(* C23: the callback invocation of every dispatched beat notifies the     *)
(* subscribers exactly once, with that beat's number, also when the sound  *)
(* of the beat could not be played; and a notification is only ever        *)
(* produced by the step that dispatches a beat.                            *)
C23_OneNotificationPerBeat ==
    [][/\ (LoopIterationAct /\ hist'.dispatched)
             => hist'.beatEvents = <<[beat |-> scheduler.currentBeat,
                                      isFirstBeat |-> (scheduler.currentBeat = 1)]>>
       /\ ~hist.dispatched => hist.beatEvents = <<>>
       /\ (hist'.beatEvents # hist.beatEvents /\ hist'.beatEvents # <<>>)
             => (LoopIterationAct /\ scheduler.schedulerCallback # "null")]_vars

C25_SoundNeverStartsInPast == ~hist.lateStart

(* C26: every audio node registered for a played sound is eventually       *)
(* removed from the registry of active nodes; the cleanup paths (the       *)
(* source's end, the per-node timeout, the periodic sweep, the full        *)
(* cleanup) are idempotent and commute on the registry; a registered node  *)
(* always has its timeout still to come, so the registry is empty once     *)
(* every sound was played longer ago than its cleanup delay and no due     *)
(* timeout is outstanding.                                                 *)
PlaybackCeased == \A src \in audioSources : src.age > src.delay

NoTimeoutOverdue == \A src \in audioSources : ~(src.timeoutPending /\ src.age >= src.delay)

CleanupIdempotent ==
    LET a == NodeWorld
        c == CleanupAudioResources(a)
    IN /\ Sweep(Sweep(a)).nodes = Sweep(a).nodes
       /\ CleanupAudioResources(c) = c
       /\ Sweep(c).nodes = {}
       /\ \A id \in NodeIds :
             LET e == SourceEnded(a, id)
                 t == NodeTimeout(a, id)
             IN /\ SourceEnded(e, id).nodes = e.nodes
                /\ NodeTimeout(t, id).nodes = t.nodes
                /\ NodeTimeout(e, id).nodes = SourceEnded(t, id).nodes
                /\ NodeTimeout(e, id).nodes = a.nodes \ {id}
                /\ Sweep(e).nodes = SourceEnded(Sweep(a), id).nodes
                /\ Sweep(t).nodes = NodeTimeout(Sweep(a), id).nodes
                /\ SourceEnded(c, id).nodes = {}
                /\ NodeTimeout(c, id).nodes = {}

C26_NodesEventuallyRemoved ==
    /\ \A id \in NodeIds : (id \in activeAudioNodes) ~> (id \notin activeAudioNodes)
    /\ [](CleanupIdempotent)
    /\ [](\A id \in activeAudioNodes : \E src \in audioSources : src.id = id /\ src.timeoutPending)
    /\ []((PlaybackCeased /\ NoTimeoutOverdue) => activeAudioNodes = {})

(* a node whose source.start() threw was registered and then removed by    *)
(* its timeout, while another node is still registered                     *)
C26_Witness ==
    /\ soundSystem.initialized
    /\ activeAudioNodes # {}
    /\ \E src \in audioSources : src.id \notin activeAudioNodes /\ ~src.timeoutPending /\ src.endPending
    /\ \E src \in audioSources : src.id \in activeAudioNodes /\ ~src.endPending /\ src.age >= src.delay

(* C27: on every state update each listener subscribed before and still    *)
(* subscribed after the update is called exactly once with the state       *)
(* before and the state after the update, also when another listener       *)
(* throws or unsubscribes during the notification; a listener that is not  *)
(* subscribed is never called.                                             *)
CallsOf(l, calls) == {i \in 1..Len(calls) : calls[i].listener = l}

C27_EveryListenerNotified ==
    [][(lastCall'.op = "updateState" /\ lastCall'.arg # Null)
          => \A l \in ListenerIds :
                /\ (IndexOf(listeners, l) > 0 /\ IndexOf(listeners', l) > 0)
                      => \E i \in 1..Len(listenerCalls') :
                            /\ CallsOf(l, listenerCalls') = {i}
                            /\ listenerCalls'[i].prev = state
                            /\ listenerCalls'[i].new = state'
                /\ IndexOf(listeners, l) = 0 => CallsOf(l, listenerCalls') = {}]_vars

(* C28: updateConfig with a key path the configuration does not have, or   *)
(* with a defaultBPM that is not a number within minBPM..maxBPM, returns   *)
(* false and leaves the configuration as it was.                           *)
PathExists(cfg, keyPath) ==
    /\ keyPath # <<>>
    /\ keyPath[1] \in DOMAIN cfg
    /\ Len(keyPath) = 2 => (IsObject(cfg, keyPath[1]) /\ keyPath[2] \in DOMAIN cfg[keyPath[1]])

InvalidTempo(cfg, keyPath, value) ==
    /\ keyPath = <<"defaultBPM">>
    /\ (~IsNumber(value) \/ value = NaN \/ value < cfg.minBPM \/ value > cfg.maxBPM)

C28_InvalidConfigUpdateRejected ==
    [][lastCall'.op = "updateConfig"
          => LET keyPath == lastCall'.arg.keyPath
                 value == lastCall'.arg.value
             IN (~PathExists(config, keyPath) \/ InvalidTempo(config, keyPath, value))
                    => (lastCall'.ret = "false" /\ config' = config)]_vars

(* C29: retryInitialize(), called while no initialisation is in progress   *)
(* and with initialisation steps that all succeed, returns true, marks the *)
(* application initialised and leaves the scheduler with an audio context. *)
C29_RetryInitializeSucceeds ==
    [][(/\ lastCall'.op = "retryInitialize"
        /\ ~appInitializer.isInitializing
        /\ lastCall'.arg.stepsOk
        /\ ~initializationOrder'.error)
          => /\ lastCall'.ret = "true"
             /\ appInitializer'.isInitialized
             /\ scheduler'.audioContext # "null"]_vars

(* C30: the order computed for the dependency-graph initialisation holds   *)
(* every registered module exactly once, each module after all of its      *)
(* registered dependencies; if the registered dependencies have a cycle,   *)
(* no order is produced and the initialisation throws.                     *)
DependsOn(app, a, b) == Registered(app, b) /\ b \in SeqRange(app.dependencies[a])

RECURSIVE ReachableFrom(_, _)
ReachableFrom(app, modules) ==
    LET next == modules \cup {b \in ModuleIds : \E a \in modules : DependsOn(app, a, b)}
    IN IF next = modules THEN modules ELSE ReachableFrom(app, next)

HasCycle(app) ==
    \E a \in SeqRange(app.moduleRegistry) :
        a \in ReachableFrom(app, {b \in ModuleIds : DependsOn(app, a, b)})

IsTopologicalOrder(app, order) ==
    /\ SeqRange(order) = SeqRange(app.moduleRegistry)
    /\ Len(order) = Len(app.moduleRegistry)
    /\ \A j, k \in 1..Len(order) : DependsOn(app, order[j], order[k]) => k < j

C30_TopologicalInitializationOrder ==
    [][(lastCall'.op = "initialize" /\ initializationOrder'.calculated)
          => IF HasCycle(appInitializer')
             THEN /\ initializationOrder'.error
                  /\ lastCall'.ret = "throw"
                  /\ appInitializer'.initialized = appInitializer.initialized \ SeqRange(CoreModules)
             ELSE /\ ~initializationOrder'.error
                  /\ IsTopologicalOrder(appInitializer', initializationOrder'.order)]_vars

(* an order was computed in which a module registered first comes after    *)
(* the modules it depends on, registered later                             *)
C30_Witness ==
    /\ lastCall.op = "initialize"
    /\ initializationOrder.calculated
    /\ ~initializationOrder.error
    /\ Len(initializationOrder.order) = 8
    /\ appInitializer.moduleRegistry[1] \in PluginModules
    /\ initializationOrder.order[1] = "scheduler"
    /\ appInitializer.isInitialized

(* C31: whenever no metronome operation is in progress, the published      *)
(* state's isRunning is true exactly when the scheduler is running.        *)
C31_PublishedRunningMatchesScheduler ==
    pc = "idle" => (state.isRunning <=> scheduler.isRunning)

(* C32: once every start(), stop() and toggle() of the Metronome class has *)
(* settled, the scheduler is not running while isPlaying is false.         *)
C32_NotRunningWhileNotPlaying ==
    (pendingStart = "none" /\ scheduler.isRunning) => metronomeInstance.isPlaying

(* C33: a recovery callback that runs while the scheduler is running (it   *)
(* was started again during the cooldown) changes neither errorCount nor   *)
(* the audio context.                                                      *)
C33_RecoveryLeavesRestartedSchedulerAlone ==
    [][(RecoveryAct /\ scheduler.isRunning)
          => /\ scheduler'.errorCount = scheduler.errorCount
             /\ scheduler'.audioContext = scheduler.audioContext]_vars

(* C34: at every moment at most one tick timer is pending, and none is     *)
(* pending while the scheduler is stopped.                                 *)
C34_AtMostOneTickTimer ==
    /\ Cardinality({t \in timers : t.kind = "tick"}) <= 1
    /\ ~scheduler.isRunning => ~TickTimerPending

(* the beats a session over `segments` is to play, in order: for segment i *)
(* (counted from 0), repeats_i repetitions of beats_i beats                *)
RECURSIVE ExpectedBeats(_, _)
ExpectedBeats(segments, i) ==
    IF i > Len(segments)
    THEN <<>>
    ELSE [k \in 1..(segments[i].beats * segments[i].repeats) |->
             [segment |-> i - 1, repeat |-> ((k - 1) \div segments[i].beats) + 1]]
         \o ExpectedBeats(segments, i + 1)

IsPrefix(a, b) == Len(a) <= Len(b) /\ \A i \in 1..Len(a) : a[i] = b[i]

(* C35: the beats a training session handles while it runs go through the  *)
(* segments in order, repeats_i repetitions of beats_i beats each;         *)
(* training:complete has been dispatched, once, exactly when all of them   *)
(* have been handled, and the metronome was stopped at that point.         *)
C35_SessionCompletesAfterAllBeats ==
    LET expected == ExpectedBeats(trainingHist.segments, 1)
    IN /\ IsPrefix(trainingHist.played, expected)
       /\ trainingHist.complete =
             (IF trainingHist.segments # <<>> /\ trainingHist.played = expected THEN 1 ELSE 0)
       /\ trainingHist.complete = 1 => ~trainingHist.runningAtComplete

C35_Witness ==
    /\ Len(trainingHist.segments) = 2
    /\ trainingHist.complete = 1
    /\ Len(trainingHist.played) = 4

(* C36: when startSession or resumeSession has returned true the metronome *)
(* is running, and when pauseSession has returned true it is not.          *)
C36_SessionRunningMeansMetronomeRunning ==
    /\ (lastCall.op \in {"startSession", "resumeSession"} /\ lastCall.ret = "true")
          => (state.isRunning /\ scheduler.isRunning)
    /\ (lastCall.op = "pauseSession" /\ lastCall.ret = "true")
          => (~state.isRunning /\ ~scheduler.isRunning)

(* C37: while the duration of the lock last obtained for a key has not     *)
(* elapsed and the lock has not been released by unlock(key), the key is   *)
(* locked, so every other tryLock(key) returns false.                      *)
C37_LockHeldForItsDuration ==
    \A key \in LockKeys : lockHist[key] > 0 => key \in locks

C39_FailedRecoveryKeepsError ==
    [][((AttemptRecoveryAct \/ PendingRecoveryAct) /\ audioErrorBoundary.hasError
            /\ lastCall'.ret = "false")
         => audioErrorBoundary'.hasError]_vars

====
